---- MODULE Spec2Model ----
(***************************************************************************)
(* A model of go-render-quill: RenderExtended turns a Quill Delta (a JSON  *)
(* array of insert ops) into HTML.  Buffers are modelled as the sequence   *)
(* of strings written to them (their concatenation is the byte content);   *)
(* text is a sequence of one-character strings.                            *)
(***************************************************************************)
EXTENDS Integers, Sequences, FiniteSets, TLC

VARIABLES
    input,          \* the ops argument: what json.Unmarshal finds in the bytes
    vars,           \* the renderVars struct: finalBuf, tempBuf, fs, fms, o
    pc,             \* position inside RenderExtended
    raw,            \* the decoded raw ops consumed so far (raw[0..i])
    split,          \* strings.Split(o.Data, "\n") of the op being written
    j,              \* index into split (1-based)
    html,           \* the byte slice RenderExtended returned
    customFormats,  \* the resolver argument of RenderExtended
    twin            \* a second, independent invocation fed a related input

allVars == <<input, vars, pc, raw, split, j, html, customFormats, twin, input>>

-----------------------------------------------------------------------------
(* Bounds of the model. *)

\* the number of ops of the input array
MaxOps == 3

-----------------------------------------------------------------------------
(* FormatPlace, render.go *)

Tag == 0
Class == 1
Style == 2

-----------------------------------------------------------------------------
(* Strings and buffers. *)

RECURSIVE Concat(_)
\* the bytes of a sequence of written strings
Concat(ss) == IF ss = <<>> THEN "" ELSE Head(ss) \o Concat(Tail(ss))

\* the pieces a write of the string s appends: none when s is empty
DataOf(s) == IF s = "" THEN <<>> ELSE << s >>

\* bytes.Buffer.WriteString / WriteByte: append to the buffer
WriteString(buf, s) == buf \o DataOf(s)

\* bytes.Buffer.Write of a sequence of pieces (text, or another buffer)
WriteAll(buf, pieces) == buf \o pieces

\* the escapes of strconv.Quote, on the strings of the model: the only one with
\* a character to escape is the image source "u\n", whose newline becomes \n
QuoteEscapes(s) == IF s = "u\n" THEN "u\\n" ELSE s

\* strconv.Quote
Quote(s) == "\"" \o QuoteEscapes(s) \o "\""

\* The byte order of Go strings, on the values a Format of the model can have.
ValOrder ==
    << "", "align-center", "b", "background-color:;", "background-color:red;",
       "blockquote", "color:;", "color:blue;", "color:red;",
       "em", "h1", "h2", "indent-1", "li", "p",
       "ql-size-", "ql-size-large", "ql-size-small",
       "s", "strong", "sub", "sup", "u" >>

Rank(s) == CHOOSE k \in 1..Len(ValOrder) : ValOrder[k] = s

\* the Go comparison a < b on strings
StrLess(a, b) == Rank(a) < Rank(b)

\* an escaping of the angle brackets and the ampersand only
EscapeCharNoQuotes(c) ==
    CASE c = "&" -> "&amp;"
      [] c = "<" -> "&lt;"
      [] c = ">" -> "&gt;"
      [] OTHER -> c

\* html.EscapeString on one character
EscapeChar(c) ==
    CASE c = "&" -> "&amp;"
      [] c = "<" -> "&lt;"
      [] c = ">" -> "&gt;"
      [] c = "\"" -> "&#34;"
      [] c = "'" -> "&#39;"
      [] OTHER -> c

\* html.EscapeString
EscapeString(chars) == [k \in 1..Len(chars) |-> EscapeChar(chars[k])]

\* strings.IndexByte(s, '\n') != -1
HasNewline(data) == \E k \in 1..Len(data) : data[k] = "\n"

\* a split at the first "\n" only: the rest keeps its newlines
SplitFirst(data) ==
    IF ~HasNewline(data) THEN << data >>
    ELSE LET k == CHOOSE n \in 1..Len(data) :
                     data[n] = "\n" /\ \A m \in 1..(n - 1) : data[m] # "\n"
         IN << SubSeq(data, 1, k - 1), SubSeq(data, k + 1, Len(data)) >>

RECURSIVE Split(_)
\* strings.Split(s, "\n")
Split(data) ==
    IF ~HasNewline(data) THEN << data >>
    ELSE LET k == CHOOSE n \in 1..Len(data) :
                     data[n] = "\n" /\ \A m \in 1..(n - 1) : data[m] # "\n"
         IN << SubSeq(data, 1, k - 1) >> \o Split(SubSeq(data, k + 1, Len(data)))

-----------------------------------------------------------------------------
(* JSON values as json.Unmarshal gives them in an interface{}. *)

JNull == [t |-> "nil", s |-> <<>>, n |-> 0, m |-> <<>>]
JTrue == [t |-> "bool", s |-> <<>>, n |-> 1, m |-> <<>>]
JFalse == [t |-> "bool", s |-> <<>>, n |-> 0, m |-> <<>>]
JNum(k) == [t |-> "float64", s |-> <<>>, n |-> k, m |-> <<>>]
JStr(chunks) == [t |-> "string", s |-> chunks, n |-> 0, m |-> <<>>]
JArr == [t |-> "array", s |-> <<>>, n |-> 0, m |-> <<>>]
JObj(map) == [t |-> "map", s |-> <<>>, n |-> 0, m |-> map]

\* a rawOp: Insert is any JSON value, Attrs a map of JSON values
RawOp(ins, attrs) == [Insert |-> ins, Attrs |-> attrs]

Digits == << "0", "1", "2", "3", "4", "5", "6", "7", "8", "9" >>

RECURSIVE FormatFloat(_)
\* strconv.FormatFloat(val, 'f', 0, 64) on a non-negative integral value
FormatFloat(k) ==
    IF k < 10 THEN Digits[k + 1]
    ELSE FormatFloat(k \div 10) \o Digits[(k % 10) + 1]

\* extractString, raw_op.go
extractString(v) ==
    CASE v.t = "string" -> Concat(v.s)
      [] v.t = "bool" -> IF v.n = 1 THEN "y" ELSE ""
      [] v.t = "float64" -> FormatFloat(v.n)
      [] OTHER -> ""

\* o.Attrs[k] of a Go map: the zero value for a missing key
AttrOf(o, k) == IF k \in DOMAIN o.Attrs THEN o.Attrs[k] ELSE ""

\* The orders in which a range statement can visit the keys of a map.
Orders(S) ==
    { q \in [1..Cardinality(S) -> S] :
        \A a, b \in 1..Cardinality(S) : a # b => q[a] # q[b] }

\* the attributes of a faulty makeOp that does not clear the map for reuse
mergedAttrs(ro, o) ==
    [a \in DOMAIN ro.Attrs \cup DOMAIN o.Attrs |->
        IF a \in DOMAIN ro.Attrs THEN extractString(ro.Attrs[a]) ELSE o.Attrs[a]]

\* a faulty makeOp: the attributes of the record before stay in the map
makeOpKeepsAttrs(ro, o, mk) ==
    CASE ro.Insert.t = "nil" -> [err |-> TRUE, o |-> o]
      [] ro.Insert.t = "string" ->
            [err |-> FALSE,
             o |-> [Data |-> EscapeString(ro.Insert.s),
                    Type |-> "text",
                    Attrs |-> mergedAttrs(ro, o)]]
      [] ro.Insert.t = "map" ->
            IF DOMAIN ro.Insert.m = {} THEN [err |-> TRUE, o |-> o]
            ELSE [err |-> FALSE,
                  o |-> [Data |-> DataOf(extractString(ro.Insert.m[mk])),
                         Type |-> mk,
                         Attrs |-> mergedAttrs(ro, o)]]
      [] OTHER -> [err |-> TRUE, o |-> o]

\* rawOp.makeOp: the Op is overwritten on success and left alone on failure.
\* mk is the key that range visits first when Insert is an object.
makeOp(ro, o, mk) ==
    CASE ro.Insert.t = "nil" -> [err |-> TRUE, o |-> o]
      [] ro.Insert.t = "string" ->
            [err |-> FALSE,
             o |-> [Data |-> EscapeString(ro.Insert.s),
                    Type |-> "text",
                    Attrs |-> [a \in DOMAIN ro.Attrs |-> extractString(ro.Attrs[a])]]]
      [] ro.Insert.t = "map" ->
            IF DOMAIN ro.Insert.m = {} THEN [err |-> TRUE, o |-> o]
            ELSE [err |-> FALSE,
                  o |-> [Data |-> DataOf(extractString(ro.Insert.m[mk])),
                         Type |-> mk,
                         Attrs |-> [a \in DOMAIN ro.Attrs |-> extractString(ro.Attrs[a])]]]
      [] OTHER -> [err |-> TRUE, o |-> o]

\* the first key a range over the Insert object can visit
FirstKeys(ro) ==
    IF ro.Insert.t = "map" /\ DOMAIN ro.Insert.m # {} THEN DOMAIN ro.Insert.m
    ELSE {""}

-----------------------------------------------------------------------------
(* Formatters: the values getFormatter returns, and their methods. *)

\* a Formatter value; arg is the field of the struct (level, lType, val, c, ...)
FmTer(kind, arg, indent) == [kind |-> kind, arg |-> arg, indent |-> indent]

\* the nil Formatter
NilFmTer == FmTer("nil", "", 0)

\* indentDepths, block formats
indentDepths(s) ==
    CASE s = "1" -> 1 [] s = "2" -> 2 [] s = "3" -> 3 [] s = "4" -> 4 [] s = "5" -> 5
      [] OTHER -> 0

\* Op.HasAttr
HasAttr(o, attr) == AttrOf(o, attr) # ""

\* a Format struct
Format(val, place, block) ==
    [Val |-> val, Place |-> place, Block |-> block, wrap |-> FALSE,
     wrapPre |-> "", wrapPost |-> "", fm |-> NilFmTer]

\* Formatter.Fmt: the empty sequence stands for a nil *Format
Fmt(f) ==
    CASE f.kind = "text" -> << Format("p", Tag, TRUE) >>
      [] f.kind = "blockquote" -> << Format("blockquote", Tag, TRUE) >>
      [] f.kind = "header" -> << Format("h" \o f.arg, Tag, TRUE) >>
      [] f.kind = "list" -> << Format("li", Tag, TRUE) >>
      [] f.kind = "align" -> << Format("align-" \o f.arg, Class, TRUE) >>
      [] f.kind = "indent" -> << Format("indent-" \o f.arg, Class, TRUE) >>
      [] f.kind = "bold" -> << Format("strong", Tag, FALSE) >>
      [] f.kind = "italic" -> << Format("em", Tag, FALSE) >>
      [] f.kind = "underline" -> << Format("u", Tag, FALSE) >>
      [] f.kind = "strike" -> << Format("s", Tag, FALSE) >>
      [] f.kind = "color" -> << Format("color:" \o f.arg \o ";", Style, FALSE) >>
      [] f.kind = "background" ->
            << Format("background-color:" \o f.arg \o ";", Style, FALSE) >>
      [] f.kind = "size" -> << Format("ql-size-" \o f.arg, Class, FALSE) >>
      [] f.kind = "script" -> << Format(f.arg, Tag, FALSE) >>
      [] f.kind = "link" -> << Format("", Tag, FALSE) >>
      [] f.kind = "image" -> << >>
      [] f.kind = "customBold" -> << Format(f.arg, Tag, FALSE) >>

\* Formatter.HasFormat
HasFormat(f, o) ==
    CASE f.kind = "text" -> o.Type = "text"
      [] f.kind = "blockquote" -> HasAttr(o, "blockquote")
      [] f.kind = "header" -> AttrOf(o, "header") = f.arg
      [] f.kind = "list" -> HasAttr(o, "list")
      [] f.kind = "align" -> AttrOf(o, "align") = f.arg
      [] f.kind = "indent" -> AttrOf(o, "indent") = f.arg
      [] f.kind = "bold" -> HasAttr(o, "bold")
      [] f.kind = "italic" -> HasAttr(o, "italic")
      [] f.kind = "underline" -> HasAttr(o, "underline")
      [] f.kind = "strike" -> HasAttr(o, "strike")
      [] f.kind = "color" -> AttrOf(o, "color") = f.arg
      [] f.kind = "background" -> AttrOf(o, "background") = f.arg
      [] f.kind = "size" -> AttrOf(o, "size") = f.arg
      [] f.kind = "script" -> HasAttr(o, "script")
      [] f.kind = "link" -> FALSE
      [] f.kind = "image" -> o.Type = "image" /\ Concat(o.Data) = f.arg
      [] f.kind = "customBold" -> HasAttr(o, "bold")

\* the type assertion fmTer.(FormatWriter)
IsFormatWriter(f) == f.kind = "image"

\* the type assertion fmTer.(FormatWrapper)
IsFormatWrapper(f) == f.kind \in {"list", "link"}

\* imageFormat.Write (alt is never set by getFormatter)
Write(f, buf) ==
    WriteString(WriteString(WriteString(buf, "<img src="), Quote(f.arg)), ">")

\* FormatWrapper.Wrap: << pre, post >>
Wrap(f) ==
    CASE f.kind = "list" -> << "<" \o f.arg \o ">", "</" \o f.arg \o ">" >>
      [] f.kind = "link" ->
            << "<a href=" \o Quote(f.arg) \o " target=\"_blank\">", "</a>" >>

\* FormatWrapper.Open
Open(f, open, o) ==
    CASE f.kind = "list" ->
            ~\E k \in 1..Len(open) :
                open[k].Place = Tag /\ open[k].Val = "<" \o f.arg \o ">"
      [] f.kind = "link" -> TRUE

\* a faulty Close: the list wrapper is closed whether or not a block ends
CloseIgnoresBlock(f, open, o, doingBlock) ==
    CASE f.kind = "list" ->
            LET t == AttrOf(o, "list")
            IN \/ ~HasAttr(o, "list")
               \/ (t = "ordered" /\ f.arg # "ol")
               \/ (t = "bullet" /\ f.arg # "ul")
      [] f.kind = "link" -> AttrOf(o, "link") # f.arg

\* FormatWrapper.Close
Close(f, open, o, doingBlock) ==
    CASE f.kind = "list" ->
            IF ~doingBlock THEN FALSE
            ELSE LET t == AttrOf(o, "list")
                 IN \/ ~HasAttr(o, "list")
                    \/ (t = "ordered" /\ f.arg # "ol")
                    \/ (t = "bullet" /\ f.arg # "ul")
      [] f.kind = "link" -> AttrOf(o, "link") # f.arg

\* a resolver whose result is never a Formatter
CustomNone(cf, keyword, o) == NilFmTer

\* the resolver passed to RenderExtended, customFormats(keyword, o): "nil" is
\* the nil function, "none" a function that returns nil for every keyword,
\* "custom" a function that returns a Formatter of the caller for the attribute
\* bold (the tag b for strong), a paragraph Formatter for the insert type
\* formula (for which no Formatter is built in), and nil for the rest
Custom(cf, keyword, o) ==
    IF cf = "custom" /\ keyword = "bold" THEN FmTer("customBold", "b", 0)
    ELSE IF cf = "custom" /\ keyword = "formula" THEN FmTer("text", "", 0)
    ELSE NilFmTer

\* Op.getFormatter
getFormatter(o, keyword, cf) ==
    IF cf # "nil" /\ Custom(cf, keyword, o) # NilFmTer THEN Custom(cf, keyword, o)
    ELSE
    CASE keyword = "text" -> FmTer("text", "", 0)
      [] keyword = "header" -> FmTer("header", AttrOf(o, "header"), 0)
      [] keyword = "list" ->
            FmTer("list",
                  IF AttrOf(o, "list") = "bullet" THEN "ul" ELSE "ol",
                  indentDepths(AttrOf(o, "indent")))
      [] keyword = "blockquote" -> FmTer("blockquote", "", 0)
      [] keyword = "align" -> FmTer("align", AttrOf(o, "align"), 0)
      [] keyword = "image" -> FmTer("image", Concat(o.Data), 0)
      [] keyword = "link" -> FmTer("link", AttrOf(o, "link"), 0)
      [] keyword = "bold" -> FmTer("bold", "", 0)
      [] keyword = "size" -> FmTer("size", AttrOf(o, "size"), 0)
      [] keyword = "italic" -> FmTer("italic", "", 0)
      [] keyword = "underline" -> FmTer("underline", "", 0)
      [] keyword = "color" -> FmTer("color", AttrOf(o, "color"), 0)
      [] keyword = "indent" -> FmTer("indent", AttrOf(o, "indent"), 0)
      [] keyword = "strike" -> FmTer("strike", "", 0)
      [] keyword = "background" -> FmTer("background", AttrOf(o, "background"), 0)
      [] keyword = "script" ->
            FmTer("script", IF AttrOf(o, "script") = "super" THEN "sup" ELSE "sub", 0)
      \* codeBlockFormat is not among the sources: no op of the model names it
      [] keyword = "code-block" -> FmTer("code-block", "", 0)
      [] OTHER -> NilFmTer

-----------------------------------------------------------------------------
(* formatState: the stack of open formats, format_state.go *)

\* closeTag, render.go
closeTag(buf, tagName) ==
    WriteString(WriteString(WriteString(buf, "</"), tagName), ">")

RECURSIVE Join(_)
\* strings.Join(cl, " ")
Join(cl) ==
    IF cl = <<>> THEN ""
    ELSE IF Len(cl) = 1 THEN cl[1]
    ELSE cl[1] \o " " \o Join(Tail(cl))

\* classesList, render.go
classesList(cl) == IF Len(cl) > 0 THEN " class=" \o Quote(Join(cl)) ELSE ""

\* a faulty hasSet: no format is ever found open
hasSetNever(fs, fm) == FALSE

\* formatState.hasSet
hasSet(fs, fm) ==
    \E k \in 1..Len(fs) : fs[k].Place = fm.Place /\ fs[k].Val = fm.Val

\* a faulty closing string: every entry that is no wrapper is closed by its value
writeCloseByValue(f, buf) ==
    IF f.wrap THEN WriteString(buf, f.wrapPost) ELSE closeTag(buf, f.Val)

\* what formatState.pop writes for the entry f it removes
writeClose(f, buf) ==
    IF f.wrap THEN WriteString(buf, f.wrapPost)
    ELSE IF f.Place = Tag THEN closeTag(buf, f.Val)
    ELSE closeTag(buf, "span")

\* formatState.pop: [fs, buf] afterwards
pop(fs, buf) ==
    [fs |-> SubSeq(fs, 1, Len(fs) - 1), buf |-> writeClose(fs[Len(fs)], buf)]

\* a faulty add: a format equal to an open one is not added
addIfNotSet(fs, f) == IF f.Place < 3 /\ ~hasSet(fs, f) THEN Append(fs, f) ELSE fs

\* formatState.add
add(fs, f) == IF f.Place < 3 THEN Append(fs, f) ELSE fs

\* formatState.Less, on the two entries compared
Less(fsi, fsj) ==
    IF IsFormatWrapper(fsi.fm) THEN TRUE
    ELSE IF IsFormatWrapper(fsj.fm) THEN FALSE
    ELSE IF fsi.Place # fsj.Place THEN fsi.Place < fsj.Place
    ELSE StrLess(fsi.Val, fsj.Val)

\* formatState.Swap
Swap(fs, a, b) == [fs EXCEPT ![a] = fs[b], ![b] = fs[a]]

RECURSIVE siftDown(_, _)
\* the inner loop of insertion sort: for k > 1 && Less(k, k-1) { Swap; k-- }
siftDown(fs, k) ==
    IF k > 1 /\ Less(fs[k], fs[k - 1]) THEN siftDown(Swap(fs, k, k - 1), k - 1)
    ELSE fs

RECURSIVE insertionSort(_, _)
insertionSort(fs, k) ==
    IF k > Len(fs) THEN fs ELSE insertionSort(siftDown(fs, k), k + 1)

\* sort.Sort(fs): Go sorts a slice this short by insertion
Sort(fs) == insertionSort(fs, 2)

\* the opening fragment writeFormats writes for one entry
writeFormat(f, buf) ==
    IF f.wrap THEN WriteString(buf, f.Val)
    ELSE IF f.Place = Tag
    THEN WriteString(WriteString(WriteString(buf, "<"), f.Val), ">")
    ELSE IF f.Place = Class
    THEN WriteString(WriteString(WriteString(WriteString(buf, "<"), "span class="),
                                 Quote(f.Val)), ">")
    ELSE IF f.Place = Style
    THEN WriteString(WriteString(WriteString(WriteString(buf, "<"), "span style="),
                                 Quote(f.Val)), ">")
    ELSE WriteString(WriteString(buf, "<"), ">")

RECURSIVE writeEach(_, _)
\* the loop of writeFormats over the sorted entries
writeEach(fs, buf) ==
    IF fs = <<>> THEN buf ELSE writeEach(Tail(fs), writeFormat(Head(fs), buf))

\* formatState.writeFormats: the receiver is sorted in place, then written
writeFormats(fs, buf) == [fs |-> Sort(fs), buf |-> writeEach(Sort(fs), buf)]

\* the condition under which the closing scans close stack entry f
dueToClose(f, fs, o, doingBlock) ==
    \/ (~f.wrap /\ ~HasFormat(f.fm, o))
    \/ (f.wrap /\ Close(f.fm, fs, o, doingBlock))

\* fs.pop(buf) on the scan state st = [fs, buf, closedTemp]
popScan(st) ==
    [st EXCEPT !.fs = pop(st.fs, st.buf).fs, !.buf = pop(st.fs, st.buf).buf]

\* the entries above the one being closed are left on the stack: none is
\* closed for now
popAboveNone(st, k) == st

RECURSIVE popAbove(_, _)
\* for ij := len(fs)-1; ij > i; ij-- { closedTemp.add(fs[ij]); fs.pop(buf) }
popAbove(st, k) ==
    IF Len(st.fs) <= k THEN st
    ELSE popAbove(popScan([st EXCEPT !.closedTemp = add(@, st.fs[Len(st.fs)])]), k)

RECURSIVE closeScan(_, _, _, _)
\* the loop of closePrevious, from the last format opened down to the first
closeScan(st, k, o, doingBlock) ==
    IF k < 1 THEN st
    ELSE IF dueToClose(st.fs[k], st.fs, o, doingBlock)
    THEN closeScan(popScan(popAbove(st, k)), k - 1, o, doingBlock)
    ELSE closeScan(st, k - 1, o, doingBlock)

\* the end of closePrevious: the formats closed for now are written again and
\* appended to the stack
reopen(st) ==
    [fs |-> st.fs \o writeFormats(st.closedTemp, st.buf).fs,
     buf |-> writeFormats(st.closedTemp, st.buf).buf]

\* formatState.closePrevious: [fs, buf] afterwards
closePrevious(fs, buf, o, doingBlock) ==
    reopen(closeScan([fs |-> fs, buf |-> buf, closedTemp |-> <<>>],
                     Len(fs), o, doingBlock))

-----------------------------------------------------------------------------
(* Op and renderVars, render.go *)

\* blankOp
blankOp == [Data |-> <<>>, Type |-> "text", Attrs |-> <<>>]

\* the Format of fmTer with its fm field set, and its wrap fields for a wrapper
newFormat(fmTer) ==
    IF IsFormatWrapper(fmTer)
    THEN [Fmt(fmTer)[1] EXCEPT !.fm = fmTer, !.wrap = TRUE,
                               !.wrapPre = Wrap(fmTer)[1], !.wrapPost = Wrap(fmTer)[2]]
    ELSE [Fmt(fmTer)[1] EXCEPT !.fm = fmTer]

\* A faulty addFmTer: a FormatWriter writes its output and the Data of the op
\* is kept
addFormatKeepsData(v, fmTer) ==
    IF Fmt(fmTer) = <<>>
    THEN IF IsFormatWriter(fmTer) THEN [v EXCEPT !.tempBuf = Write(fmTer, @)] ELSE v
    ELSE IF IsFormatWrapper(fmTer) THEN [v EXCEPT !.fms = Append(@, newFormat(fmTer))]
    ELSE IF ~hasSet(v.fs, Fmt(fmTer)[1]) THEN [v EXCEPT !.fms = Append(@, newFormat(fmTer))]
    ELSE v

\* Op.addFmTer for a Formatter that is not nil
addFormat(v, fmTer) ==
    IF Fmt(fmTer) = <<>>
    THEN IF IsFormatWriter(fmTer)
         THEN [v EXCEPT !.tempBuf = Write(fmTer, @), !.o.Data = <<>>]
         ELSE v
    ELSE IF IsFormatWrapper(fmTer) THEN [v EXCEPT !.fms = Append(@, newFormat(fmTer))]
    ELSE IF ~hasSet(v.fs, Fmt(fmTer)[1]) THEN [v EXCEPT !.fms = Append(@, newFormat(fmTer))]
    ELSE v

\* A faulty addFmTer: a nil Formatter is handled like one whose Fmt is nil and
\* that wrote its own output, so the Data of the op is dropped.
addFmTerDropsData(v, fmTer) ==
    IF fmTer = NilFmTer THEN [v EXCEPT !.o.Data = <<>>] ELSE addFormat(v, fmTer)

\* Op.addFmTer: the renderVars afterwards
addFmTer(v, fmTer) == IF fmTer = NilFmTer THEN v ELSE addFormat(v, fmTer)

\* fs.pop on writeBlock's scan state st = [fs, tempBuf, finalBuf, closedTemp]:
\* into finalBuf when the entry being closed is a block wrapper, else into tempBuf
popBlock(st, toFinal) ==
    IF toFinal
    THEN [st EXCEPT !.fs = pop(st.fs, st.finalBuf).fs,
                    !.finalBuf = pop(st.fs, st.finalBuf).buf]
    ELSE [st EXCEPT !.fs = pop(st.fs, st.tempBuf).fs,
                    !.tempBuf = pop(st.fs, st.tempBuf).buf]

RECURSIVE popAboveBlock(_, _, _)
\* writeBlock's inner loop over the entries above the one being closed
popAboveBlock(st, k, toFinal) ==
    IF Len(st.fs) <= k THEN st
    ELSE popAboveBlock(
            popBlock([st EXCEPT !.closedTemp = add(@, st.fs[Len(st.fs)])], toFinal),
            k, toFinal)

RECURSIVE closeScanBlock(_, _, _)
\* writeBlock's closing loop: inline closes go to tempBuf, block wrappers to finalBuf
closeScanBlock(st, k, o) ==
    IF k < 1 THEN st
    ELSE IF dueToClose(st.fs[k], st.fs, o, TRUE)
    THEN closeScanBlock(
            popBlock(popAboveBlock(st, k, st.fs[k].wrap /\ st.fs[k].Block),
                     st.fs[k].wrap /\ st.fs[k].Block),
            k - 1, o)
    ELSE closeScanBlock(st, k - 1, o)

\* writeBlock after its closing loop: the formats closed for now are written to
\* tempBuf again and appended to the stack
reopenBlock(v, st) ==
    [v EXCEPT !.fs = st.fs \o writeFormats(st.closedTemp, st.tempBuf).fs,
              !.tempBuf = writeFormats(st.closedTemp, st.tempBuf).buf,
              !.finalBuf = st.finalBuf]

\* the block struct of writeBlock after the Format fm is merged into it
mergeBlock(block, fm) ==
    IF ~fm.Block THEN block
    ELSE IF fm.Place = Tag THEN [block EXCEPT !.tagName = fm.Val]
    ELSE IF fm.Place = Class THEN [block EXCEPT !.classes = Append(@, fm.Val)]
    ELSE IF fm.Place = Style THEN [block EXCEPT !.style = @ \o fm.Val]
    ELSE block

\* fm.Val = fm.wrapPre; vars.fs.add(fm); vars.finalBuf.WriteString(fm.Val), where
\* fm is the pointer vars.fms[k]: the entry of vars.fms changes as well
openWrapper(v, k) ==
    [v EXCEPT !.fms[k].Val = v.fms[k].wrapPre,
              !.fs = add(@, [v.fms[k] EXCEPT !.Val = v.fms[k].wrapPre]),
              !.finalBuf = WriteString(@, v.fms[k].wrapPre)]

RECURSIVE mergeFormats(_, _)
\* writeBlock's loop over vars.fms: the block tag is merged and the wrappers that
\* Open are written to finalBuf and pushed.  st = [v, block]
mergeFormats(st, k) ==
    IF k > Len(st.v.fms) THEN st
    ELSE mergeFormats(
            [v |-> IF st.v.fms[k].wrap /\ Open(st.v.fms[k].fm, st.v.fs, st.v.o)
                   THEN openWrapper(st.v, k)
                   ELSE st.v,
             block |-> mergeBlock(st.block, st.v.fms[k])],
            k + 1)

\* writeBlock without the substitution of "<br>": the Data is written as it is
blockDataNoBreak(st) == st.v.o.Data

\* a faulty substitution: "<br>" is written for the first block of the output only
blockDataFirstOnly(st) ==
    IF st.v.o.Data = <<>> /\ st.block.tagName = "p" /\ Len(st.v.tempBuf) = 0
       /\ st.v.finalBuf = <<>>
    THEN << "<br>" >>
    ELSE st.v.o.Data

\* the Data writeBlock writes: "<br>" for a text block that would be empty
blockData(st) ==
    IF st.v.o.Data = <<>> /\ st.block.tagName = "p" /\ Len(st.v.tempBuf) = 0
    THEN << "<br>" >>
    ELSE st.v.o.Data

\* the opening tag of the block: nothing when no tag name is set
writeOpenTag(buf, block) ==
    IF block.tagName = "" THEN buf
    ELSE IF block.style # ""
    THEN WriteString(
            WriteString(
                WriteString(
                    WriteString(WriteString(WriteString(buf, "<"), block.tagName),
                                classesList(block.classes)),
                    " style="),
                Quote(block.style)),
            ">")
    ELSE WriteString(
            WriteString(WriteString(WriteString(buf, "<"), block.tagName),
                        classesList(block.classes)),
            ">")

\* the closing tag of the block
writeCloseTag(buf, block) ==
    IF block.tagName = "" THEN buf ELSE closeTag(buf, block.tagName)

\* the end of writeBlock: the tag, the temporary buffer, the Data, the closing
\* tag; the temporary buffer is reset
writeBody(st) ==
    [st.v EXCEPT
        !.o.Data = blockData(st),
        !.finalBuf = writeCloseTag(
                        WriteAll(WriteAll(writeOpenTag(@, st.block), st.v.tempBuf),
                                 blockData(st)),
                        st.block),
        !.tempBuf = <<>>]

\* Op.writeBlock: the renderVars afterwards
writeBlock(v) ==
    writeBody(
        mergeFormats(
            [v |-> reopenBlock(v, closeScanBlock([fs |-> v.fs, tempBuf |-> v.tempBuf,
                                                  finalBuf |-> v.finalBuf,
                                                  closedTemp |-> <<>>],
                                                 Len(v.fs), v.o)),
             block |-> [tagName |-> "", classes |-> <<>>, style |-> ""]],
            1))

RECURSIVE collectInlineAll(_, _)
\* a faulty loop of writeInline: the block formats are added as well
collectInlineAll(st, k) ==
    IF k > Len(st.v.fms) THEN st
    ELSE IF ~st.v.fms[k].wrap
    THEN collectInlineAll([st EXCEPT !.addNow = add(@, st.v.fms[k])], k + 1)
    ELSE IF Open(st.v.fms[k].fm, st.v.fs, st.v.o)
    THEN collectInlineAll(
            [st EXCEPT !.v.fms[k].Val = st.v.fms[k].wrapPre,
                       !.addNow = add(@, [st.v.fms[k] EXCEPT !.Val = st.v.fms[k].wrapPre])],
            k + 1)
    ELSE collectInlineAll(st, k + 1)

RECURSIVE collectInline(_, _)
\* writeInline's loop over vars.fms: st = [v, addNow].  f.Val = f.wrapPre
\* changes the entry of vars.fms, f being a pointer
collectInline(st, k) ==
    IF k > Len(st.v.fms) THEN st
    ELSE IF st.v.fms[k].Block THEN collectInline(st, k + 1)
    ELSE IF ~st.v.fms[k].wrap
    THEN collectInline([st EXCEPT !.addNow = add(@, st.v.fms[k])], k + 1)
    ELSE IF Open(st.v.fms[k].fm, st.v.fs, st.v.o)
    THEN collectInline(
            [st EXCEPT !.v.fms[k].Val = st.v.fms[k].wrapPre,
                       !.addNow = add(@, [st.v.fms[k] EXCEPT !.Val = st.v.fms[k].wrapPre])],
            k + 1)
    ELSE collectInline(st, k + 1)

\* writeInline after closePrevious returned c = [fs, buf]
afterClose(v, c) == [v EXCEPT !.fs = c.fs, !.tempBuf = c.buf]

\* a faulty end of writeInline: the Data is written before the formats
writeNowTextFirst(st) ==
    [st.v EXCEPT !.fs = @ \o writeFormats(st.addNow, st.v.tempBuf).fs,
                 !.tempBuf = writeFormats(st.addNow, WriteAll(@, st.v.o.Data)).buf]

\* the end of writeInline: addNow is written and appended, then the Data
writeNow(st) ==
    [st.v EXCEPT !.fs = @ \o writeFormats(st.addNow, st.v.tempBuf).fs,
                 !.tempBuf = WriteAll(writeFormats(st.addNow, @).buf, st.v.o.Data)]

\* Op.writeInline: the renderVars afterwards
writeInline(v) ==
    writeNow(
        collectInline(
            [v |-> afterClose(v, closePrevious(v.fs, v.tempBuf, v.o, FALSE)),
             addNow |-> <<>>],
            1))

RECURSIVE addAttrFmTers(_, _, _, _)
\* for attr := range vars.o.Attrs { addFmTer(getFormatter(attr)) }, visiting the
\* keys in the given order
addAttrFmTers(v, order, k, cf) ==
    IF k > Len(order) THEN v
    ELSE addAttrFmTers(addFmTer(v, getFormatter(v.o, order[k], cf)), order, k + 1, cf)

\* RenderExtended once makeOp succeeded: the formatter of the type, then those
\* of the attributes: [err, v]
collectFormats(v, order, cf) ==
    IF getFormatter(v.o, v.o.Type, cf) = NilFmTer THEN [err |-> TRUE, v |-> v]
    ELSE [err |-> FALSE,
          v |-> addAttrFmTers(addFmTer(v, getFormatter(v.o, v.o.Type, cf)),
                              order, 1, cf)]

\* A faulty beginOp: when makeOp fails, the temporary buffer is flushed to the
\* final buffer before the return.
beginOpFlushes(v, ro, mk, order, cf) ==
    IF makeOp(ro, v.o, mk).err
    THEN [err |-> TRUE, v |-> [v EXCEPT !.finalBuf = WriteAll(@, v.tempBuf)]]
    ELSE collectFormats([v EXCEPT !.o = makeOp(ro, v.o, mk).o, !.fms = <<>>], order, cf)

\* A faulty beginOp: when makeOp fails, the final buffer is emptied before the
\* return.
beginOpDropsOutput(v, ro, mk, order, cf) ==
    IF makeOp(ro, v.o, mk).err THEN [err |-> TRUE, v |-> [v EXCEPT !.finalBuf = <<>>]]
    ELSE collectFormats([v EXCEPT !.o = makeOp(ro, v.o, mk).o, !.fms = <<>>], order, cf)

\* RenderExtended, from makeOp to the end of the loop over the attributes:
\* [err, v]; when makeOp fails nothing of v has changed
beginOp(v, ro, mk, order, cf) ==
    IF makeOp(ro, v.o, mk).err THEN [err |-> TRUE, v |-> v]
    ELSE collectFormats([v EXCEPT !.o = makeOp(ro, v.o, mk).o, !.fms = <<>>], order, cf)

RECURSIVE writeSplit(_, _, _)
\* the loop over split, from index k on
writeSplit(v, sp, k) ==
    IF k < Len(sp) THEN writeSplit(writeBlock([v EXCEPT !.o.Data = sp[k]]), sp, k + 1)
    ELSE IF sp[k] # <<>> THEN writeInline([v EXCEPT !.o.Data = sp[k]])
    ELSE [v EXCEPT !.o.Data = sp[k]]

\* the rest of the loop body once the formats are collected, b = [err, v]
writeOp(b) ==
    IF b.err THEN b
    ELSE IF HasNewline(b.v.o.Data)
    THEN [err |-> FALSE, v |-> writeSplit(b.v, Split(b.v.o.Data), 1)]
    ELSE [err |-> FALSE, v |-> writeInline(b.v)]

\* the body of RenderExtended's loop for one raw op: [err, v]
renderOp(v, ro, mk, order, cf) == writeOp(beginOp(v, ro, mk, order, cf))

\* the final close of RenderExtended: the renderVars afterwards
finalClose(v) ==
    [v EXCEPT !.fs = closePrevious(v.fs, v.finalBuf, blankOp, TRUE).fs,
              !.finalBuf = closePrevious(v.fs, v.finalBuf, blankOp, TRUE).buf]

-----------------------------------------------------------------------------
(* The input alphabets: raw ops as json.Unmarshal decodes them. *)

NoAttrs == <<>>

Text(chars, attrs) == RawOp(JStr(chars), attrs)

Embed(map, attrs) == RawOp(JObj(map), attrs)

Bullet == JStr(<< "b", "u", "l", "l", "e", "t" >>)

Ordered == JStr(<< "o", "r", "d", "e", "r", "e", "d" >>)

Checked == JStr(<< "c", "h", "e", "c", "k", "e", "d" >>)

\* the ops of the default specification: text, blocks, inline formats, lists,
\* embeds, and inserts of every JSON shape
Ops ==
    { Text(<< "a" >>, NoAttrs),
      Text(<< "\n" >>, NoAttrs),
      Text(<< "<", "\n", "b" >>, NoAttrs),
      Text(<< "b" >>, [bold |-> JTrue]),
      Text(<< "\n" >>, [bold |-> JTrue]),
      Text(<< "c" >>, [color |-> JStr(<< >>)]),
      Text(<< "\n" >>, [list |-> Bullet]),
      Text(<< "\n" >>, [list |-> Ordered]),
      Text(<< "\n" >>, [list |-> Checked]),
      Text(<< "a", "\n", "b", "\n" >>, [list |-> Bullet]),
      Text(<< "\n" >>, [bold |-> JTrue, list |-> Bullet]),
      Embed([image |-> JStr(<< "u" >>)], NoAttrs),
      Embed([formula |-> JStr(<< "x" >>)], NoAttrs),
      Embed([image |-> JStr(<< "u" >>), text |-> JStr(<< "t" >>)], NoAttrs),
      Embed(<<>>, NoAttrs),
      RawOp(JNull, NoAttrs),
      RawOp(JNum(1), NoAttrs),
      RawOp(JTrue, NoAttrs),
      RawOp(JArr, NoAttrs) }

\* ops whose attributes can be visited in more than one order
OrderOps ==
    { Text(<< "a" >>, NoAttrs),
      Text(<< "\n" >>, NoAttrs),
      Text(<< "a", "\n", "b" >>, NoAttrs),
      Text(<< "x" >>, [bold |-> JTrue, italic |-> JTrue]),
      Text(<< "y" >>, [bold |-> JTrue, color |-> JStr(<< "red" >>)]),
      Text(<< "\n" >>, [header |-> JNum(1), blockquote |-> JTrue]),
      Text(<< "\n" >>, [align |-> JStr(<< "center" >>), indent |-> JNum(1)]),
      Text(<< "\n" >>, [list |-> Bullet, indent |-> JNum(1)]),
      RawOp(JNull, NoAttrs) }

\* ops carrying attributes whose value is false or null
ClearedOps ==
    { Text(<< "a" >>, NoAttrs),
      Text(<< "\n" >>, NoAttrs),
      Text(<< "a", "\n", "b" >>, NoAttrs),
      Text(<< "b" >>, [bold |-> JTrue]),
      Text(<< "b" >>, [bold |-> JFalse]),
      Text(<< "i" >>, [italic |-> JNull]),
      Text(<< "c" >>, [bold |-> JTrue, color |-> JFalse]),
      Text(<< "\n" >>, [list |-> JFalse]),
      Text(<< "\n" >>, [header |-> JNull]),
      RawOp(JNull, [bold |-> JFalse]) }

\* ops carrying an attribute keyword no formatter is defined for
UnknownOps ==
    { Text(<< "a" >>, NoAttrs),
      Text(<< "\n" >>, NoAttrs),
      Text(<< "b" >>, [bold |-> JTrue]),
      Text(<< "a" >>, [mention |-> JStr(<< "m" >>)]),
      Text(<< "\n" >>, [mention |-> JTrue]),
      Text(<< "<", "\n", "b" >>, [mention |-> JTrue]),
      Text(<< "b" >>, [bold |-> JTrue, mention |-> JTrue]),
      Text(<< "\n" >>, [list |-> Bullet, mention |-> JNum(1)]),
      Embed([image |-> JStr(<< "u" >>)], [mention |-> JTrue]),
      Embed([formula |-> JStr(<< "x" >>)], [mention |-> JTrue]),
      RawOp(JNull, [mention |-> JTrue]) }

\* ops carrying block-level attributes, on newlines and on text without newline
BlockOps ==
    { Text(<< "a" >>, NoAttrs),
      Text(<< "a" >>, [header |-> JNum(1)]),
      Text(<< "a" >>, [list |-> Bullet]),
      Text(<< "a" >>, [align |-> JStr(<< "center" >>)]),
      Text(<< "\n" >>, NoAttrs),
      Text(<< "\n" >>, [header |-> JNum(1)]),
      Text(<< "\n" >>, [header |-> JNum(2)]),
      Text(<< "\n" >>, [blockquote |-> JTrue]),
      Text(<< "\n" >>, [list |-> Bullet]),
      Text(<< "\n" >>, [align |-> JStr(<< "center" >>)]),
      Text(<< "\n" >>, [header |-> JNum(1), align |-> JStr(<< "center" >>),
                        indent |-> JNum(1)]),
      Text(<< "a", "\n", "b" >>, [blockquote |-> JTrue]),
      Text(<< "a", "\n", "b", "\n" >>, [list |-> Bullet]) }

\* ops whose rendering a resolver can change: bold text, a formula embed
CustomOps ==
    { Text(<< "a" >>, NoAttrs),
      Text(<< "\n" >>, NoAttrs),
      Text(<< "a", "\n", "b" >>, NoAttrs),
      Text(<< "b" >>, [bold |-> JTrue]),
      Text(<< "\n" >>, [list |-> Bullet]),
      Embed([image |-> JStr(<< "u" >>)], NoAttrs),
      Embed([formula |-> JStr(<< "x" >>)], NoAttrs),
      RawOp(JNull, NoAttrs) }

\* the resolvers RenderExtended is called with
Resolvers == {"nil", "none", "custom"}

\* image embeds, alone and with attributes, among text
ImageOps ==
    { Text(<< "a" >>, NoAttrs),
      Text(<< "\n" >>, NoAttrs),
      Text(<< "a", "\n", "b" >>, NoAttrs),
      Text(<< "b" >>, [bold |-> JTrue]),
      Embed([image |-> JStr(<< "u" >>)], NoAttrs),
      Embed([image |-> JStr(<< "u", "\n" >>)], NoAttrs),
      Embed([image |-> JStr(<< "u" >>)], [bold |-> JTrue]) }

\* text with the characters html.EscapeString replaces, with and without newlines
TextOps ==
    { Text(<< "a" >>, NoAttrs),
      Text(<< "&", "<" >>, NoAttrs),
      Text(<< ">", "\n", "\"" >>, NoAttrs),
      Text(<< "'", "\n" >>, NoAttrs),
      Text(<< "<", "a", ">" >>, [bold |-> JTrue]),
      Text(<< "\n", "&", "\n" >>, [list |-> Bullet]) }

\* the inputs of every shape json.Unmarshal tells apart when it fills raw
Docs ==
    {"array", "null", "syntax", "object", "string", "number",
     "array-number", "array-attributes"}

\* text with link attributes: consecutive ops with the same and with another
\* target, among plain and bold text and a list item
LinkOps ==
    { Text(<< "a" >>, NoAttrs),
      Text(<< "\n" >>, NoAttrs),
      Text(<< "a" >>, [link |-> JStr(<< "u" >>)]),
      Text(<< "b" >>, [link |-> JStr(<< "u" >>)]),
      Text(<< "c" >>, [link |-> JStr(<< "v" >>)]),
      Text(<< "b" >>, [link |-> JStr(<< "u" >>), bold |-> JTrue]),
      Text(<< "a", "\n", "b" >>, [link |-> JStr(<< "u" >>)]),
      Text(<< "\n" >>, [list |-> Bullet]) }

\* the most formats handed to one call of writeFormats
MaxFormats == 3

\* a wrapper Format as the write paths add it: Val is the opening string
opened(f) == [f EXCEPT !.Val = f.wrapPre]

\* formats one call of writeFormats can be given: inline formats of each
\* placement, a link and a list wrapper
SortPool ==
    { newFormat(FmTer("bold", "", 0)),
      newFormat(FmTer("italic", "", 0)),
      newFormat(FmTer("size", "large", 0)),
      newFormat(FmTer("color", "red", 0)),
      opened(newFormat(FmTer("link", "u", 0))),
      opened(newFormat(FmTer("list", "ul", 0))) }

\* formats add can be given: those of SortPool, and one whose placement is
\* none of Tag, Class and Style
AddPool == SortPool \cup { [newFormat(FmTer("bold", "", 0)) EXCEPT !.Place = 3] }

\* Formatters that are no wrappers, whose format hasSet can be asked about:
\* built-in ones, and one of a resolver whose tag is spelled like the opening
\* string of a list
HasSetFmTers ==
    { FmTer("bold", "", 0),
      FmTer("italic", "", 0),
      FmTer("underline", "", 0),
      FmTer("size", "large", 0),
      FmTer("color", "red", 0),
      FmTer("customBold", "<ul>", 0) }

\* paragraphs of text: blank lines alone, between two paragraphs of one op and
\* after inline formats and an image
ParaOps ==
    { Text(<< "a" >>, NoAttrs),
      Text(<< "\n" >>, NoAttrs),
      Text(<< "\n", "\n" >>, NoAttrs),
      Text(<< "a", "\n", "\n", "b" >>, NoAttrs),
      Text(<< "b" >>, [bold |-> JTrue]),
      Text(<< "\n" >>, [bold |-> JTrue]),
      Embed([image |-> JStr(<< "u" >>)], NoAttrs) }

\* inline attributes: on text that holds newlines, and the same attribute with
\* one value after another
SpanOps ==
    { Text(<< "a" >>, NoAttrs),
      Text(<< "\n" >>, NoAttrs),
      Text(<< "b" >>, [bold |-> JTrue]),
      Text(<< "a", "\n", "b" >>, [bold |-> JTrue]),
      Text(<< "a", "\n", "b", "\n" >>, [bold |-> JTrue]),
      Text(<< "c" >>, [color |-> JStr(<< "red" >>)]),
      Text(<< "c" >>, [color |-> JStr(<< "blue" >>)]),
      Text(<< "e" >>, [size |-> JStr(<< "large" >>)]),
      Text(<< "e" >>, [size |-> JStr(<< "small" >>)]),
      Text(<< "d" >>, [script |-> JStr(<< "super" >>)]),
      Text(<< "d" >>, [script |-> JStr(<< "sub" >>)]) }

\* a few ops that take every path of the loop: text without and with newlines,
\* formats to close, a list item, and an op that is no insert
TermOps ==
    { Text(<< "b" >>, [bold |-> JTrue]),
      Text(<< "a", "\n", "b", "\n", "c" >>, [italic |-> JTrue]),
      Text(<< "\n" >>, [list |-> Bullet]),
      RawOp(JNull, NoAttrs) }

-----------------------------------------------------------------------------
(* RenderExtended as a state machine. *)

InitVars ==
    [finalBuf |-> <<>>, tempBuf |-> <<>>, fs |-> <<>>, fms |-> <<>>,
     o |-> [Data |-> <<>>, Type |-> "", Attrs |-> <<>>]]

Init ==
    /\ input = "array"
    /\ vars = InitVars
    /\ pc = "loop"
    /\ raw = <<>>
    /\ split = <<>>
    /\ j = 0
    /\ html = <<>>
    /\ customFormats = "nil"
    /\ twin = [vars |-> InitVars, pc |-> "loop", html |-> <<>>, raw |-> <<>>]

\* the twin invocation after the loop body returned r = [err, v] for the op ro
twinAfter(tw, r, ro) ==
    [vars |-> r.v,
     pc |-> IF r.err THEN "error" ELSE "loop",
     html |-> IF r.err THEN r.v.finalBuf ELSE tw.html,
     raw |-> Append(tw.raw, ro)]

\* the twin invocation, a call of Render (RenderExtended with the nil resolver),
\* consumes one raw op, from makeOp to the end of the loop body
TwinOp(tw, ro, mk, order) ==
    IF tw.pc # "loop" THEN tw
    ELSE twinAfter(tw, renderOp(tw.vars, ro, mk, order, "nil"), ro)

\* the twin invocation reaches the end of its input
TwinFinish(tw) ==
    IF tw.pc # "loop" THEN tw
    ELSE [tw EXCEPT !.vars = finalClose(@), !.pc = "done",
                    !.html = finalClose(tw.vars).finalBuf]

\* json.Unmarshal that overlooks the elements of the array
UnmarshalLenient(doc) == doc \notin {"array", "null", "array-number", "array-attributes"}

\* json.Unmarshal(ops, &raw) on the input: TRUE when it returns an error.  The bytes are a
\* JSON array of objects ("array"), the JSON null, which leaves raw empty
\* ("null"), no JSON at all ("syntax"), a JSON value of another type ("object",
\* "string", "number"), or an array with an element that is no object
\* ("array-number") or whose attributes are no object ("array-attributes")
Unmarshal(doc) == doc \notin {"array", "null"}

\* the entry of RenderExtended: the bytes are decoded; on an error nil is
\* returned, a slice without bytes
Decode ==
    /\ pc = "decode"
    /\ IF Unmarshal(input)
       THEN /\ pc' = "error"
            /\ html' = <<>>
       ELSE /\ pc' = "loop"
            /\ html' = html
    /\ UNCHANGED <<input, vars, raw, split, j, customFormats, twin>>

\* The next raw op is made into the Op and its formatters are collected; mk is
\* the key range visits first in an object insert, order the order in which range
\* visits the attributes.  ro2 and order2 are what the twin invocation is given.
BeginOp(ro, mk, order, ro2, order2) ==
    /\ pc = "loop"
    /\ input = "array"
    /\ Len(raw) < MaxOps
    /\ raw' = Append(raw, ro)
    /\ \E b \in { beginOp(vars, ro, mk, order, customFormats) } :
          /\ vars' = b.v
          /\ IF b.err
             THEN /\ pc' = "error"
                  /\ html' = b.v.finalBuf
                  /\ split' = <<>>
                  /\ j' = 0
             ELSE IF HasNewline(b.v.o.Data)
             THEN /\ pc' = "split"
                  /\ split' = Split(b.v.o.Data)
                  /\ j' = 1
                  /\ html' = html
             ELSE /\ pc' = "inline"
                  /\ split' = <<>>
                  /\ j' = 0
                  /\ html' = html
    /\ twin' = TwinOp(twin, ro2, mk, order2)
    /\ UNCHANGED <<input, customFormats>>

\* a faulty loop over split: nothing is written and the index goes round
WriteBlockSegRound ==
    /\ pc = "split"
    /\ j < Len(split)
    /\ j' = IF j + 1 < Len(split) THEN j + 1 ELSE 1
    /\ UNCHANGED <<vars, pc, raw, split, html, customFormats, twin, input>>

\* a segment followed by "\n" ends a block
WriteBlockSeg ==
    /\ pc = "split"
    /\ j < Len(split)
    /\ IF (j + 1 = Len(split)) /\ split[j + 1] = <<>>
       THEN /\ vars' = [writeBlock([vars EXCEPT !.o.Data = split[j]]) EXCEPT !.o.Data = <<>>]
            /\ pc' = "loop"
       ELSE /\ vars' = writeBlock([vars EXCEPT !.o.Data = split[j]])
            /\ pc' = "split"
    /\ j' = j + 1
    /\ UNCHANGED <<raw, split, html, customFormats, twin, input>>

\* the text after the last "\n" of the op, when there is some
WriteInlineSeg ==
    /\ pc = "split"
    /\ j = Len(split)
    /\ vars' = writeInline([vars EXCEPT !.o.Data = split[j]])
    /\ pc' = "loop"
    /\ UNCHANGED <<raw, split, j, html, customFormats, twin, input>>

\* an op without "\n"
WriteInlineOp ==
    /\ pc = "inline"
    /\ vars' = writeInline(vars)
    /\ pc' = "loop"
    /\ UNCHANGED <<raw, split, j, html, customFormats, twin, input>>

\* the input is consumed: the final close, and the return
Finish ==
    /\ pc = "loop"
    /\ vars' = finalClose(vars)
    /\ html' = vars'.finalBuf
    /\ pc' = "done"
    /\ twin' = TwinFinish(twin)
    /\ UNCHANGED <<raw, split, j, customFormats, input>>

\* the twin is given the same op, visited in the same order
Same(ro, order) == { << ro, order >> }

\* the twin is given the same op, visited in any order
Reordered(ro, order) == { << ro, q >> : q \in Orders(DOMAIN ro.Attrs) }

\* the raw op ro with only the attributes of the set keep
Restrict(ro, keep) == RawOp(ro.Insert, [k \in keep |-> ro.Attrs[k]])

\* the order in which the attributes of keep are visited when the others are absent
RestrictOrder(order, keep) ==
    IF keep = {} THEN <<>> ELSE SelectSeq(order, LAMBDA k : k \in keep)

\* the attributes of ro whose JSON value is neither false nor null
Uncleared(ro) == { k \in DOMAIN ro.Attrs : ro.Attrs[k] \notin {JFalse, JNull} }

\* the twin is given the op without its false and null attributes
WithoutCleared(ro, order) ==
    { << Restrict(ro, Uncleared(ro)), RestrictOrder(order, Uncleared(ro)) >> }

\* the attributes of ro that resolve to a formatter
Resolved(ro) ==
    { k \in DOMAIN ro.Attrs : getFormatter(blankOp, k, "nil") # NilFmTer }

\* the twin is given the op without the attributes that resolve to no formatter
WithoutUnknown(ro, order) ==
    { << Restrict(ro, Resolved(ro)), RestrictOrder(order, Resolved(ro)) >> }

\* the << op, order >> pairs the twin may be given when the render is given ro
\* visited in the given order, for each relation between the two renders
TwinInputs(relation, ro, order) ==
    CASE relation = "same" -> Same(ro, order)
      [] relation = "reordered" -> Reordered(ro, order)
      [] relation = "cleared" -> WithoutCleared(ro, order)
      [] relation = "unknown" -> WithoutUnknown(ro, order)

\* One step of the render over the ops of S, beside a twin in the given relation
Step(S, relation) ==
    \/ \E ro \in S : \E mk \in FirstKeys(ro) : \E order \in Orders(DOMAIN ro.Attrs) :
          \E t \in TwinInputs(relation, ro, order) : BeginOp(ro, mk, order, t[1], t[2])
    \/ WriteBlockSeg
    \/ WriteInlineSeg
    \/ WriteInlineOp
    \/ Finish

Next == Step(Ops, "same")

Spec == Init /\ [][Next]_allVars

NextOrder == Step(OrderOps, "reordered")

\* two renders of the same ops, each visiting the attributes in its own order
SpecOrder == Init /\ [][NextOrder]_allVars

NextCleared == Step(ClearedOps, "cleared")

\* a render of ops with false and null attributes beside one of the ops without them
SpecCleared == Init /\ [][NextCleared]_allVars

NextUnknown == Step(UnknownOps, "unknown")

\* a render of ops with unknown attributes beside one of the ops without them
SpecUnknown == Init /\ [][NextUnknown]_allVars

NextBlock == Step(BlockOps, "same")

\* a render of ops with block-level attributes
SpecBlock == Init /\ [][NextBlock]_allVars

\* RenderExtended is called with any of the resolvers
InitCustom ==
    /\ input = "array"
    /\ vars = InitVars
    /\ pc = "loop"
    /\ raw = <<>>
    /\ split = <<>>
    /\ j = 0
    /\ html = <<>>
    /\ customFormats \in Resolvers
    /\ twin = [vars |-> InitVars, pc |-> "loop", html |-> <<>>, raw |-> <<>>]

NextCustom == Step(CustomOps, "same")

\* a render with a resolver beside Render of the same ops
SpecCustom == InitCustom /\ [][NextCustom]_allVars

\* renderVars kept from the call before, with only the final buffer emptied
keptRenderVars(prev) == [prev EXCEPT !.finalBuf = <<>>]

\* the renderVars of a call that follows a call which ended with prev:
\* vars := renderVars{...} is a new value on every call, and the package keeps
\* no variable that a call writes
newRenderVars(prev) == InitVars

\* a first call of Render runs alone: the invocation it is compared with waits
InitAgain ==
    /\ input = "array"
    /\ vars = InitVars
    /\ pc = "loop"
    /\ raw = <<>>
    /\ split = <<>>
    /\ j = 0
    /\ html = <<>>
    /\ customFormats = "nil"
    /\ twin = [vars |-> InitVars, pc |-> "wait", html |-> <<>>, raw |-> <<>>]

\* the first call has returned, with or without error: Render is called again,
\* beside a call on the same ops that no call came before
CallAgain ==
    /\ pc \in {"done", "error"}
    /\ twin.pc = "wait"
    /\ vars' = newRenderVars(vars)
    /\ pc' = "loop"
    /\ raw' = <<>>
    /\ split' = <<>>
    /\ j' = 0
    /\ html' = <<>>
    /\ twin' = [twin EXCEPT !.pc = "loop"]
    /\ UNCHANGED <<input, customFormats>>

NextAgain ==
    \/ Step(Ops, "same")
    \/ CallAgain

\* two calls of Render one after the other, the second beside a call alone
SpecAgain == InitAgain /\ [][NextAgain]_allVars

\* ops whose attributes and keys can be visited in one order only
PairOps ==
    { Text(<< "a", "\n", "b" >>, NoAttrs),
      Text(<< "b" >>, [bold |-> JTrue]),
      Text(<< "\n" >>, [list |-> Bullet]),
      RawOp(JNull, NoAttrs) }

RECURSIVE renderLoop(_, _, _)
RECURSIVE renderNext(_, _, _)
\* the loop of RenderExtended from the op of index k on, with the nil resolver:
\* how the call ends, and the bytes it returns
renderLoop(v, ops, k) ==
    IF k > Len(ops) THEN [pc |-> "done", html |-> finalClose(v).finalBuf]
    ELSE renderNext(renderOp(v, ops[k], CHOOSE mk \in FirstKeys(ops[k]) : TRUE,
                             CHOOSE order \in Orders(DOMAIN ops[k].Attrs) : TRUE, "nil"),
                    ops, k)

\* the return on an error of the op of index k, the next op otherwise
renderNext(r, ops, k) ==
    IF r.err THEN [pc |-> "error", html |-> r.v.finalBuf]
    ELSE renderLoop(r.v, ops, k + 1)

\* Render(ops), one call running alone from its entry to its return
Render(ops) == renderLoop(InitVars, ops, 1)

\* the tempBuf of the other invocation in place of the invocation's own
sharedVars(own, other) == [own EXCEPT !.tempBuf = other.tempBuf]

\* the renderVars a step of an invocation works on: vars is a local variable of
\* the call, and no buffer, stack or Op is shared between two calls
ownVars(own, other) == own

\* two calls of Render run at the same time
InitPair ==
    /\ input = "array"
    /\ vars = InitVars
    /\ pc = "loop"
    /\ raw = <<>>
    /\ split = <<>>
    /\ j = 0
    /\ html = <<>>
    /\ customFormats = "nil"
    /\ twin = [vars |-> InitVars, pc |-> "run", html |-> <<>>, raw |-> <<>>]

\* the second invocation after the loop body returned r = [err, v] for the op ro
pairAfter(tw, r, ro) ==
    [vars |-> r.v,
     pc |-> IF r.err THEN "error" ELSE "run",
     html |-> IF r.err THEN r.v.finalBuf ELSE tw.html,
     raw |-> Append(tw.raw, ro)]

\* a step of the second invocation between two steps of the first: one raw op,
\* from makeOp to the end of the loop body
PairOp(ro, mk, order) ==
    /\ twin.pc = "run"
    /\ Len(twin.raw) < MaxOps
    /\ twin' = pairAfter(twin, renderOp(ownVars(twin.vars, vars), ro, mk, order, "nil"), ro)
    /\ UNCHANGED <<vars, pc, raw, split, j, html, customFormats, input>>

\* the second invocation reaches the end of its input: the final close, the return
PairFinish ==
    /\ twin.pc = "run"
    /\ twin' = [twin EXCEPT !.vars = finalClose(ownVars(twin.vars, vars)), !.pc = "done",
                            !.html = finalClose(ownVars(twin.vars, vars)).finalBuf]
    /\ UNCHANGED <<vars, pc, raw, split, j, html, customFormats, input>>

NextPair ==
    \/ Step(PairOps, "same")
    \/ \E ro \in PairOps : \E mk \in FirstKeys(ro) : \E order \in Orders(DOMAIN ro.Attrs) :
          PairOp(ro, mk, order)
    \/ PairFinish

\* two calls of Render on ops of their own, their steps interleaved in any order
SpecPair == InitPair /\ [][NextPair]_allVars

NextImage == Step(ImageOps, "same")

\* a render of image embeds among text
SpecImage == Init /\ [][NextImage]_allVars

NextText == Step(TextOps, "same")

\* a render of text that holds characters to escape
SpecText == Init /\ [][NextText]_allVars

\* RenderExtended is called with bytes of any shape
InitDecode ==
    /\ input \in Docs
    /\ vars = InitVars
    /\ pc = "decode"
    /\ raw = <<>>
    /\ split = <<>>
    /\ j = 0
    /\ html = <<>>
    /\ customFormats = "nil"
    /\ twin = [vars |-> InitVars, pc |-> "loop", html |-> <<>>, raw |-> <<>>]

NextDecode ==
    \/ Decode
    \/ Step(PairOps, "same")

\* a render from the decoding of its input on
SpecDecode == InitDecode /\ [][NextDecode]_allVars

NextLink == Step(LinkOps, "same")

\* a render of text with links
SpecLink == Init /\ [][NextLink]_allVars

\* writeFormats is about to be called on some formats in some order, beside a
\* call on the same formats in an order of its own
InitSort ==
    /\ input = "array"
    /\ \E S \in SUBSET SortPool :
          /\ S # {}
          /\ Cardinality(S) <= MaxFormats
          /\ vars \in { [InitVars EXCEPT !.fs = q] : q \in Orders(S) }
          /\ twin \in { [vars |-> [InitVars EXCEPT !.fs = q], pc |-> "sort",
                         html |-> <<>>, raw |-> <<>>] : q \in Orders(S) }
    /\ pc = "sort"
    /\ raw = <<>>
    /\ split = <<>>
    /\ j = 0
    /\ html = <<>>
    /\ customFormats = "nil"

\* fs.writeFormats(buf), in both calls
SortStep ==
    /\ pc = "sort"
    /\ vars' = [vars EXCEPT !.fs = writeFormats(vars.fs, vars.tempBuf).fs,
                            !.tempBuf = writeFormats(vars.fs, vars.tempBuf).buf]
    /\ twin' = [twin EXCEPT !.vars.fs = writeFormats(twin.vars.fs, twin.vars.tempBuf).fs,
                            !.vars.tempBuf = writeFormats(twin.vars.fs, twin.vars.tempBuf).buf,
                            !.pc = "sorted"]
    /\ pc' = "sorted"
    /\ UNCHANGED <<input, raw, split, j, html, customFormats>>

NextSort == SortStep

\* writeFormats as a function of the formats it is given
SpecSort == InitSort /\ [][NextSort]_allVars

\* a stack of some open formats in some order, and an empty buffer
InitPop ==
    /\ input = "array"
    /\ \E S \in SUBSET SortPool :
          /\ S # {}
          /\ Cardinality(S) <= MaxFormats
          /\ vars \in { [InitVars EXCEPT !.fs = q] : q \in Orders(S) }
    /\ pc = "pop"
    /\ raw = <<>>
    /\ split = <<>>
    /\ j = 0
    /\ html = <<>>
    /\ customFormats = "nil"
    /\ twin = [vars |-> InitVars, pc |-> "done", html |-> <<>>, raw |-> <<>>]

\* fs.pop(buf); the callers call it on a stack that is not empty
PopStep ==
    /\ pc = "pop"
    /\ vars.fs # <<>>
    /\ vars' = [vars EXCEPT !.fs = pop(vars.fs, vars.tempBuf).fs,
                            !.tempBuf = pop(vars.fs, vars.tempBuf).buf]
    /\ UNCHANGED <<input, pc, raw, split, j, html, customFormats, twin>>

NextPop == PopStep

\* pop as a function of the stack and the buffer
SpecPop == InitPop /\ [][NextPop]_allVars

\* an empty stack, to which formats are added one call after another
InitAdd ==
    /\ input = "array"
    /\ vars = InitVars
    /\ pc = "add"
    /\ raw = <<>>
    /\ split = <<>>
    /\ j = 0
    /\ html = <<>>
    /\ customFormats = "nil"
    /\ twin = [vars |-> InitVars, pc |-> "done", html |-> <<>>, raw |-> <<>>]

\* fs.add(f), the j-th call; f is kept in vars.fms, where the callers take it
\* from
AddStep ==
    /\ pc = "add"
    /\ j < MaxFormats
    /\ \E f \in AddPool :
          vars' = [vars EXCEPT !.fms = << f >>, !.fs = add(vars.fs, f)]
    /\ j' = j + 1
    /\ UNCHANGED <<input, pc, raw, split, html, customFormats, twin>>

NextAdd == AddStep

\* add as a function of the stack and the format
SpecAdd == InitAdd /\ [][NextAdd]_allVars

\* a stack of some open formats in some order, and in vars.fms the format of a
\* Formatter that is no wrapper, as addFmTer holds it before it asks hasSet
InitHasSet ==
    /\ input = "array"
    /\ \E S \in SUBSET SortPool : \E fmTer \in HasSetFmTers :
          /\ S # {}
          /\ Cardinality(S) <= MaxFormats
          /\ vars \in { [InitVars EXCEPT !.fs = q, !.fms = << newFormat(fmTer) >>] :
                          q \in Orders(S) }
    /\ pc = "hasSet"
    /\ raw = <<>>
    /\ split = <<>>
    /\ j = 0
    /\ html = <<>>
    /\ customFormats = "custom"
    /\ twin = [vars |-> InitVars, pc |-> "done", html |-> <<>>, raw |-> <<>>]

\* the end of addFmTer: the format is kept in vars.fms unless fs.hasSet says it
\* is open
HasSetStep ==
    /\ pc = "hasSet"
    /\ vars' = [vars EXCEPT !.fms = IF ~hasSet(vars.fs, vars.fms[1]) THEN @ ELSE <<>>]
    /\ pc' = "asked"
    /\ UNCHANGED <<input, raw, split, j, html, customFormats, twin>>

NextHasSet == HasSetStep

\* hasSet as a function of the stack and the format
SpecHasSet == InitHasSet /\ [][NextHasSet]_allVars

NextPara == Step(ParaOps, "same")

\* a render of paragraphs of text
SpecPara == Init /\ [][NextPara]_allVars

NextSpan == Step(SpanOps, "same")

\* a render of text with inline attributes
SpecSpan == Init /\ [][NextSpan]_allVars

\* the control flow of RenderExtended's loop, apart from taking the next op:
\* the loop over split goes to the next segment, the text after the last "\n" or
\* an op without "\n" is written, and the final close returns.  These are the
\* steps of BeginOp's successors and of Finish seen on pc and j alone; each of
\* them is a total function of the state, so the step can be taken whenever
\* its condition on pc and j holds
Control ==
    \/ pc = "split" /\ j < Len(split) /\ j' = j + 1 /\ pc' \in {"split", "loop"}
    \/ pc = "split" /\ j = Len(split) /\ j' = j /\ pc' = "loop"
    \/ pc = "inline" /\ j' = j /\ pc' = "loop"
    \/ pc = "loop" /\ j' = j /\ pc' = "done"

NextTerminate == Step(TermOps, "same")

\* a render that always takes its next step: RenderExtended is a synchronous
\* function, nothing in it waits.  The ops are finitely many (MaxOps), no
\* fairness is asked of their arrival
SpecTerminate == Init /\ [][NextTerminate]_allVars /\ WF_<<pc, j>>(Control)

-----------------------------------------------------------------------------
(* Reading the HTML back: the tags of a sequence of written pieces. *)

\* the wrapper types of listFormat
ListTypes == {"ul", "ol"}

\* the piece is the opening string of a list wrapper
IsWrapPre(p) == \E t \in ListTypes : Wrap(FmTer("list", t, 0))[1] = p

\* the piece is the closing string of a list wrapper
IsWrapPost(p) == \E t \in ListTypes : Wrap(FmTer("list", t, 0))[2] = p

\* the list type whose wrapper the piece opens or closes
WrapType(p) ==
    CHOOSE t \in ListTypes :
        p = Wrap(FmTer("list", t, 0))[1] \/ p = Wrap(FmTer("list", t, 0))[2]

\* the element name written after "<": span for a class or style span
TagName(p) == IF p \in {"span class=", "span style="} THEN "span" ELSE p

\* the index of the first ">" at or after k
TagEnd(pieces, k) ==
    CHOOSE n \in k..Len(pieces) :
        pieces[n] = ">" /\ \A m \in k..(n - 1) : pieces[m] # ">"

RECURSIVE Nested(_, _, _)
\* the pieces from index k on close only the most recently opened element and
\* leave none open; open is the sequence of elements open before k
Nested(pieces, k, open) ==
    IF k > Len(pieces) THEN open = <<>>
    ELSE IF pieces[k] = "<"
    THEN Nested(pieces, TagEnd(pieces, k) + 1, Append(open, TagName(pieces[k + 1])))
    ELSE IF pieces[k] = "</"
    THEN /\ open # <<>>
         /\ open[Len(open)] = pieces[k + 1]
         /\ Nested(pieces, k + 3, SubSeq(open, 1, Len(open) - 1))
    ELSE IF IsWrapPre(pieces[k])
    THEN Nested(pieces, k + 1, Append(open, WrapType(pieces[k])))
    ELSE IF IsWrapPost(pieces[k])
    THEN /\ open # <<>>
         /\ open[Len(open)] = WrapType(pieces[k])
         /\ Nested(pieces, k + 1, SubSeq(open, 1, Len(open) - 1))
    ELSE IF pieces[k] = "<img src=" THEN Nested(pieces, k + 3, open)
    ELSE Nested(pieces, k + 1, open)

\* the HTML is a well-nested tag tree
WellNested(pieces) == Nested(pieces, 1, <<>>)

\* the attributes on which the attribute maps a and b differ
AttrDiff(a, b) ==
    { k \in DOMAIN a \cup DOMAIN b :
        ~(k \in DOMAIN a /\ k \in DOMAIN b /\ a[k] = b[k]) }

\* consecutive ops differ by at most one attribute
SingleSteps(ops) ==
    \A k \in 1..(Len(ops) - 1) :
        Cardinality(AttrDiff(ops[k].Attrs, ops[k + 1].Attrs)) <= 1

-----------------------------------------------------------------------------
(* The claims. *)

\* C1: when the attribute sets of consecutive ops differ by at most one
\* attribute, the HTML a successful render returns is a well-nested tag tree:
\* every closing tag matches the most recently opened unclosed tag and no tag
\* stays open.
C1_WellNestedOutput == (pc = "done" /\ SingleSteps(raw)) => WellNested(html)

\* C2: the returned bytes do not depend on the order in which the attributes
\* of an op are visited: two renders of the same ops that visit the attributes
\* of each op in different orders end alike and return the same bytes.
C2_OrderIndependent ==
    pc \in {"done", "error"} => (twin.pc = pc /\ twin.html = html)

\* C3: an attribute whose value is false or null is equivalent to the
\* attribute being absent: the render of ops carrying such attributes ends like
\* the render of the same ops without them and returns the same bytes, and
\* between ops the same formats are open in both, none being opened for it.
C3_ClearedIsAbsent ==
    /\ pc \in {"done", "error"} => (twin.pc = pc /\ twin.html = html)
    /\ pc = "loop" => twin.vars.fs = vars.fs

\* the raw op has no usable insert: it is null or missing, a number, a boolean,
\* an array, or an object without keys
NoUsableInsert(ro) ==
    \/ ro.Insert.t \notin {"string", "map"}
    \/ (ro.Insert.t = "map" /\ DOMAIN ro.Insert.m = {})

\* the raw op is an object insert none of whose keys resolves to a formatter
NoFormatterForType(ro) ==
    /\ ro.Insert.t = "map"
    /\ \A key \in DOMAIN ro.Insert.m : getFormatter(blankOp, key, "nil") = NilFmTer

\* C4: when an op is malformed (no usable insert, or a type that resolves to no
\* formatter) the render ends with an error and returns exactly the final
\* buffer the ops before it produced: the failing op writes nothing, neither
\* the temporary buffer nor the closing of open formats is added, and no step
\* follows the error.
C4_ErrorReturnsFinalBuf ==
    [][ /\ pc # "error"
        /\ (raw' # raw /\ (NoUsableInsert(raw'[Len(raw')])
                           \/ NoFormatterForType(raw'[Len(raw')])))
              => pc' = "error"
        /\ pc' = "error"
              => /\ html' = vars.finalBuf
                 /\ vars'.finalBuf = vars.finalBuf
                 /\ vars'.tempBuf = vars.tempBuf
                 /\ vars'.fs = vars.fs ]_allVars

\* C4 (its case is reached): an op fails while the final buffer holds output,
\* the temporary buffer holds pending text and a format is still open.
C4_Witness ==
    /\ pc = "error"
    /\ html # <<>>
    /\ vars.tempBuf # <<>>
    /\ vars.fs # <<>>

\* the insert of the raw op is a string or an object with exactly one key
StringOrSingleKey(ro) ==
    \/ ro.Insert.t = "string"
    \/ (ro.Insert.t = "map" /\ Cardinality(DOMAIN ro.Insert.m) = 1)

\* C5: a raw op whose insert is neither a string nor a single-key object
\* (missing, null, a number, a boolean, an array, an empty object, an object
\* with several keys) makes the render fail: once such an op is consumed the
\* render is in its error state.
C5_BadInsertFails ==
    (raw # <<>> /\ ~StringOrSingleKey(raw[Len(raw)])) => pc = "error"

\* the raw op carries an attribute that resolves to no formatter
HasUnknown(ro) == Resolved(ro) # DOMAIN ro.Attrs

\* C6: an attribute keyword that resolves to no formatter is ignored: the
\* render of ops carrying such attributes ends like the render of the same ops
\* without them (both succeed or both fail) and returns the same bytes.
C6_UnknownIgnored ==
    pc \in {"done", "error"} =>
        /\ twin.pc = pc
        /\ Concat(twin.html) = Concat(html)

\* C6 (its case is reached): a render of ops of which the first two both carry
\* an unknown attribute succeeds with output.
C6_Witness ==
    /\ pc = "done"
    /\ Len(raw) >= 2
    /\ HasUnknown(raw[1])
    /\ HasUnknown(raw[2])
    /\ twin.raw # raw
    /\ Len(html) > 3

\* C7: when the render returns without error the stack of open formats is
\* empty: the final close has popped every entry, for every input.
C7_StackEmptyAtEnd == pc = "done" => vars.fs = <<>>

\* the stack entries that are list wrappers
ListEntries(fs) == { k \in 1..Len(fs) : fs[k].wrap /\ fs[k].fm.kind = "list" }

\* the last op consumed is a string insert ending in "\n"
EndsBlock(ops) ==
    /\ ops # <<>>
    /\ ops[Len(ops)].Insert.t = "string"
    /\ ops[Len(ops)].Insert.s # <<>>
    /\ ops[Len(ops)].Insert.s[Len(ops[Len(ops)].Insert.s)] = "\n"

\* the document ends mid-list: its last block is a list item and a list wrapper
\* is open
EndsMidList ==
    /\ pc = "loop"
    /\ EndsBlock(raw)
    /\ HasAttr(vars.o, "list")
    /\ ListEntries(vars.fs) # {}

\* C8: if the document ends while a list wrapper is open, the HTML returned
\* ends with the closing string of an open list wrapper, written by the final
\* close.
C8_EndsWithListClose ==
    [][ (EndsMidList /\ pc' = "done") =>
            /\ html' # <<>>
            /\ \E k \in ListEntries(vars.fs) :
                  html'[Len(html')] = vars.fs[k].wrapPost ]_allVars

\* a step of writeBlock: a segment of split that is followed by "\n" is written
BlockStep == pc = "split" /\ j' = j + 1

\* what the step appends to the final buffer
Written == SubSeq(vars'.finalBuf, Len(vars.finalBuf) + 1, Len(vars'.finalBuf))

\* the wrapper type of the list formatter of the Op
ListType(o) == getFormatter(o, "list", "nil").arg

\* a list wrapper of type t is open
ListOpen(fs, t) == \E k \in ListEntries(fs) : fs[k].fm.arg = t

\* the number of list wrapper openings among the pieces
WrapPreCount(w) == Cardinality({ k \in 1..Len(w) : IsWrapPre(w[k]) })

\* the pieces are one list item: "<li", after wrapper strings only, up to "</li>"
IsListItem(w) ==
    /\ Len(w) >= 6
    /\ \E k \in 1..(Len(w) - 5) :
          /\ w[k] = "<" /\ w[k + 1] = "li" /\ w[k + 2] = ">"
          /\ \A m \in 1..(k - 1) : IsWrapPre(w[m]) \/ IsWrapPost(w[m])
    /\ w[Len(w) - 2] = "</" /\ w[Len(w) - 1] = "li" /\ w[Len(w)] = ">"

\* C9: every item of a run of list items of the same kind, given as separate
\* newline ops or as one op with several newlines, is written as <li>...</li>;
\* the wrapper is opened once, before the first item: an item written while
\* the wrapper of its kind is open opens none, any other item opens one.
C9_OneWrapperPerRun ==
    [][ (BlockStep /\ AttrOf(vars.o, "list") \in {"bullet", "ordered"}) =>
            /\ IsListItem(Written)
            /\ WrapPreCount(Written) =
                  IF ListOpen(vars.fs, ListType(vars.o)) THEN 0 ELSE 1 ]_allVars

\* C10: when a block-terminating op has a list kind different from an open list
\* wrapper, or has no list attribute, the closing string of that wrapper is
\* written to the final buffer before any markup of the new block.
C10_WrapperClosedFirst ==
    [][ BlockStep =>
            \A k \in ListEntries(vars.fs) :
                (~HasAttr(vars.o, "list") \/ ListType(vars.o) # vars.fs[k].fm.arg) =>
                    \E n \in 1..Len(Written) :
                        /\ Written[n] = vars.fs[k].wrapPost
                        /\ \A m \in 1..(n - 1) :
                              Written[m] # "<" /\ ~IsWrapPre(Written[m]) ]_allVars

\* the written pieces hold an opening tag
HasOpenTag(w) == \E k \in 1..Len(w) : w[k] = "<"

\* the index of the first "<" among the written pieces: the opening of the block
BlockOpenAt(w) == CHOOSE k \in 1..Len(w) : w[k] = "<" /\ \A m \in 1..(k - 1) : w[m] # "<"

\* the pieces between the opening tag of the block and its closing tag
BlockBody(w) == SubSeq(w, TagEnd(w, BlockOpenAt(w)) + 1, Len(w) - 3)

\* the tag name of the block among the written pieces
BlockTag(w) == w[BlockOpenAt(w) + 1]

Newlines(chars) == Cardinality({ k \in 1..Len(chars) : chars[k] = "\n" })

\* the op being written is a string insert
TextOp == raw # <<>> /\ raw[Len(raw)].Insert.t = "string"

\* the pieces a start with the pieces b
StartsWith(a, b) == Len(a) >= Len(b) /\ SubSeq(a, 1, Len(b)) = b

\* the pieces a end with the pieces b
EndsWith(a, b) == Len(a) >= Len(b) /\ SubSeq(a, Len(a) - Len(b) + 1, Len(a)) = b

\* the pieces w are one block element: after closing strings and wrapper
\* openings only, one opening tag, a body that starts with the inline content
\* held in the temporary buffer and ends with the text of the segment, and the
\* closing tag of the same name
OneBlock(w, held, seg) ==
    /\ HasOpenTag(w)
    /\ Len(w) >= TagEnd(w, BlockOpenAt(w)) + 3
    /\ w[Len(w) - 2] = "</" /\ w[Len(w) - 1] = BlockTag(w) /\ w[Len(w)] = ">"
    /\ StartsWith(BlockBody(w), held)
    /\ EndsWith(BlockBody(w), seg)
    /\ Len(BlockBody(w)) >= Len(held) + Len(seg)

\* C12: each newline of a text op ends exactly one block: the op is split in
\* one segment more than it has newlines, every segment but the last is
\* written by one step as one block element (opening tag, the inline content
\* accumulated so far, the text of the segment, the matching closing tag), no
\* other step of the op writes to the final buffer, and the text after the last
\* newline is appended to the temporary buffer for the next block.
C12_OneBlockPerNewline ==
    [][ /\ (pc = "split" /\ TextOp) =>
              /\ Len(split) = Newlines(raw[Len(raw)].Insert.s) + 1
              /\ pc' = "loop" => j' = Len(split)
        /\ j' # j => (raw' # raw \/ BlockStep)
        /\ vars'.finalBuf # vars.finalBuf => (BlockStep \/ pc' = "done")
        /\ (BlockStep /\ TextOp) => OneBlock(Written, vars.tempBuf, split[j])
        /\ (pc = "split" /\ j' = j /\ TextOp) =>
              /\ StartsWith(vars'.tempBuf, vars.tempBuf)
              /\ EndsWith(vars'.tempBuf, split[j])
              /\ split[j] # <<>> ]_allVars

\* C12 (its case is reached): an op with two newlines followed by an op with
\* one newline and text after it: three blocks are written and the text after
\* the last newline is held in the temporary buffer
C12_Witness ==
    /\ pc = "loop"
    /\ Len(raw) = 2
    /\ Newlines(raw[1].Insert.s) = 2
    /\ Newlines(raw[2].Insert.s) = 1
    /\ j = 2
    /\ split[2] # <<>>
    /\ vars.tempBuf = split[2]
    /\ Cardinality({ k \in 1..Len(vars.finalBuf) : vars.finalBuf[k] = "</" }) = 3

\* the block-level Tag attributes the Op carries
TagAttrs(o) == { k \in {"header", "blockquote", "list"} : HasAttr(o, k) }

\* the tag the block-level Tag attributes of the Op stand for: p without any
ExpectedTag(o) ==
    IF HasAttr(o, "header") THEN "h" \o AttrOf(o, "header")
    ELSE IF HasAttr(o, "blockquote") THEN "blockquote"
    ELSE IF HasAttr(o, "list") THEN "li"
    ELSE "p"

\* the classes the block-level Class attributes of the Op stand for
ExpectedClasses(o) ==
    { "align-" \o AttrOf(o, "align") : k \in { a \in {"align"} : HasAttr(o, a) } }
        \cup { "indent-" \o AttrOf(o, "indent") : k \in { a \in {"indent"} : HasAttr(o, a) } }

\* what the opening tag of the block holds between its name and ">"
BlockTagAttrs(w) == SubSeq(w, BlockOpenAt(w) + 2, TagEnd(w, BlockOpenAt(w)) - 1)

\* C13: the opening tag of a block is determined by the op that holds the
\* newline only: p when the op has no block-level Tag attribute, the tag of
\* the attribute (h and the level, blockquote, li) when it has exactly one, with
\* the classes of the op's align and indent attributes as its class attribute;
\* what earlier ops of the block carried has no part in it.
C13_TagFromNewlineOp ==
    [][ (BlockStep /\ TextOp) =>
            /\ HasOpenTag(Written)
            /\ Cardinality(TagAttrs(vars.o)) <= 1 =>
                  BlockTag(Written) = ExpectedTag(vars.o)
            /\ \E q \in Orders(ExpectedClasses(vars.o)) :
                  BlockTagAttrs(Written) = DataOf(classesList(q)) ]_allVars

\* the raw op is a formula embed
IsFormula(ro) == ro.Insert.t = "map" /\ DOMAIN ro.Insert.m = {"formula"}

\* the pieces with every tag strong turned into the tag b
StrongAsB(w) == [k \in 1..Len(w) |-> IF w[k] = "strong" THEN "b" ELSE w[k]]

\* C14: the resolver passed to RenderExtended is asked before the built-in
\* table, for the type keyword and for every attribute keyword, and what it
\* returns is used in place of the built-in Formatter: with the resolver
\* "custom" a bold run is written with its tag b where Render writes strong,
\* and a formula embed does not fail.  With the nil resolver, or one that
\* returns nil for every keyword, the output and the error are those of Render.
C14_ResolverFirst ==
    /\ (pc \in {"done", "error"} /\ customFormats \in {"nil", "none"}) =>
          (twin.pc = pc /\ twin.html = html)
    /\ (pc \in {"done", "error"} /\ customFormats = "custom"
            /\ \A k \in 1..Len(raw) : ~IsFormula(raw[k])) =>
          (twin.pc = pc /\ html = StrongAsB(twin.html))
    /\ (customFormats = "custom" /\ raw # <<>> /\ IsFormula(raw[Len(raw)])) =>
          (pc # "error" /\ twin.pc = "error")

\* C14 (its case is reached): with the resolver "custom" a render of a bold
\* run and a formula embed succeeds, where Render fails
C14_Witness ==
    /\ customFormats = "custom"
    /\ pc = "done"
    /\ twin.pc = "error"
    /\ \E k \in 1..Len(html) : html[k] = "b" /\ k > 1 /\ html[k - 1] = "<"
    /\ \E k \in 1..Len(raw) : IsFormula(raw[k])

IsImage(ro) == ro.Insert.t = "map" /\ DOMAIN ro.Insert.m = {"image"}

\* the number of image tags among the pieces
ImgCount(w) == Cardinality({ k \in 1..Len(w) : w[k] = "<img src=" })

\* what the step appends to the temporary buffer
Appended == SubSeq(vars'.tempBuf, Len(vars.tempBuf) + 1, Len(vars'.tempBuf))

\* C17: for an image embed the tag <img src="URL"> is written once, into the
\* inline content of the current block, when the formatters of the op are
\* collected; the URL is not written again as text by the inline write that
\* follows, and the op goes the inline path, never ending a block, also when its
\* URL holds a newline.
C17_ImageWrittenOnce ==
    [][ /\ (raw' # raw /\ IsImage(raw'[Len(raw')])) =>
              /\ pc' = "inline"
              /\ vars'.finalBuf = vars.finalBuf
              /\ vars'.tempBuf =
                    vars.tempBuf \o << "<img src=",
                                       Quote(Concat(raw'[Len(raw')].Insert.m["image"].s)),
                                       ">" >>
        /\ (pc = "inline" /\ IsImage(raw[Len(raw)])) =>
              /\ vars'.finalBuf = vars.finalBuf
              /\ StartsWith(vars'.tempBuf, vars.tempBuf)
              /\ ImgCount(vars'.tempBuf) = ImgCount(vars.tempBuf)
              /\ \A k \in 1..Len(Appended) :
                    /\ Appended[k] # Concat(raw[Len(raw)].Insert.m["image"].s)
                    /\ \A n \in 1..Len(raw[Len(raw)].Insert.m["image"].s) :
                          Appended[k] # raw[Len(raw)].Insert.m["image"].s[n] ]_allVars

\* C17 (its case is reached): after text, a bold image embed is written: the
\* temporary buffer holds the text, one image tag and the opened bold tag
C17_Witness ==
    /\ pc = "loop"
    /\ Len(raw) = 2
    /\ IsImage(raw[2])
    /\ vars.tempBuf = << "a", "<img src=", "\"u\"", ">", "<", "strong", ">" >>
    /\ vars.finalBuf = <<>>

\* the characters that have a meaning in HTML
SpecialChars == {"&", "<", ">", "\"", "'"}

\* the HTML entity of each of them
Entity(c) ==
    CASE c = "&" -> "&amp;"
      [] c = "<" -> "&lt;"
      [] c = ">" -> "&gt;"
      [] c = "\"" -> "&#34;"
      [] c = "'" -> "&#39;"

\* no piece of the text is one of the special characters
NoSpecial(chars) == \A k \in 1..Len(chars) : chars[k] \notin SpecialChars

\* C18: the text of a string insert is escaped before anything is rendered:
\* each of & < > " ' is replaced by its entity and every other character,
\* the newline among them, is left as it is, so that the Data of the Op and
\* every segment written from it hold no raw < or >, and the op is still split
\* at its newlines.
C18_TextEscaped ==
    [][ /\ (raw' # raw /\ raw'[Len(raw')].Insert.t = "string") =>
              /\ Len(vars'.o.Data) = Len(raw'[Len(raw')].Insert.s)
              /\ \A k \in 1..Len(vars'.o.Data) :
                    vars'.o.Data[k] =
                        IF raw'[Len(raw')].Insert.s[k] \in SpecialChars
                        THEN Entity(raw'[Len(raw')].Insert.s[k])
                        ELSE raw'[Len(raw')].Insert.s[k]
              /\ NoSpecial(vars'.o.Data)
              /\ (pc' = "split") = (Newlines(raw'[Len(raw')].Insert.s) > 0)
              /\ pc' = "split" =>
                    /\ Len(split') = Newlines(raw'[Len(raw')].Insert.s) + 1
                    /\ \A n \in 1..Len(split') : NoSpecial(split'[n])
        /\ (TextOp /\ pc \in {"split", "inline"}) => NoSpecial(vars'.o.Data) ]_allVars

\* C18 (its case is reached): the text >, newline, " is written as the block
\* <p>&gt;</p> with &#34; held for the next block
C18_Witness ==
    /\ pc = "loop"
    /\ raw = << Text(<< ">", "\n", "\"" >>, NoAttrs) >>
    /\ vars.finalBuf = << "<", "p", ">", "&gt;", "</", "p", ">" >>
    /\ vars.tempBuf = << "&#34;" >>

\* the bytes cannot be decoded as an array of op records
Undecodable ==
    input \in {"syntax", "object", "string", "number", "array-number", "array-attributes"}

\* C19: when the input cannot be decoded as an array of op records, the
\* render returns a nil byte slice and an error: once the decoding is over the
\* render is in its error state, no op was processed, no buffer was written,
\* the stack is empty, and no step follows.
C19_DecodeErrorReturnsNil ==
    (Undecodable /\ pc # "decode") =>
        /\ pc = "error"
        /\ html = <<>>
        /\ raw = <<>>
        /\ vars = InitVars

\* C19 (its case is reached): an array with an element that is no object was
\* refused
C19_Witness ==
    /\ input = "array-number"
    /\ pc = "error"
    /\ html = <<>>

\* the indices of the stack entries due to close for the Op
DueSet(fs, o, doingBlock) ==
    { k \in 1..Len(fs) : dueToClose(fs[k], fs, o, doingBlock) }

\* the least index of the set
Lowest(S) == CHOOSE k \in S : \A m \in S : k <= m

\* the entries from index low on that are not due to close, in stack order
KeptFrom(fs, low, o, doingBlock) ==
    SelectSeq(SubSeq(fs, low, Len(fs)), LAMBDA f : ~dueToClose(f, fs, o, doingBlock))

RECURSIVE Closings(_, _, _, _)
\* buf after the closing strings of the entries from index k down to index low
Closings(fs, k, low, buf) ==
    IF k < low THEN buf ELSE Closings(fs, k - 1, low, writeClose(fs[k], buf))

\* a and b hold the same entries, each as many times
Permutation(a, b) ==
    /\ Len(a) = Len(b)
    /\ \A n \in 1..Len(a) :
          Cardinality({ m \in 1..Len(a) : a[m] = a[n] })
              = Cardinality({ m \in 1..Len(b) : b[m] = a[n] })

\* the stack fs2 is the stack fs interrupted at index low and restored: the
\* entries below low untouched, then the entries kept, in some order; buf2 starts
\* with buf, the closing strings from the top down to low, and the opening
\* fragments of the entries kept in the order they are pushed back
Restored(fs, buf, low, kept, fs2, buf2) ==
    /\ Len(fs2) >= low - 1 + Len(kept)
    /\ SubSeq(fs2, 1, low - 1) = SubSeq(fs, 1, low - 1)
    /\ Permutation(SubSeq(fs2, low, low - 1 + Len(kept)), kept)
    /\ StartsWith(buf2,
                  writeEach(SubSeq(fs2, low, low - 1 + Len(kept)),
                            Closings(fs, Len(fs), low, buf)))

\* closePrevious for the Op o took the stack fs and the buffer buf to fs2 and a
\* buffer that starts with buf2
ClosedAndRestored(fs, buf, o, doingBlock, fs2, buf2) ==
    IF DueSet(fs, o, doingBlock) = {}
    THEN StartsWith(fs2, fs) /\ StartsWith(buf2, buf)
    ELSE Restored(fs, buf, Lowest(DueSet(fs, o, doingBlock)),
                  KeptFrom(fs, Lowest(DueSet(fs, o, doingBlock)), o, doingBlock),
                  fs2, buf2)

\* the number of entries closePrevious leaves on the stack fs
KeptCount(fs, o, doingBlock) == Len(fs) - Cardinality(DueSet(fs, o, doingBlock))

\* C20: closePrevious interrupts and restores: when a stack entry due to close
\* lies below entries that still apply, the closing strings of the entries above
\* it are written first, the most recent first, then its own; the entries held
\* aside are then written again as opening fragments and pushed back.  The
\* stack afterwards holds exactly the entries not due to close: the untouched
\* lower ones in their order, then the reopened ones.  This holds for the
\* inline write (followed by the formats the op opens), for the final close,
\* and, for the stack, for the closing loop of writeBlock.
C20_InterruptAndRestore ==
    [][ /\ (pc = "inline" \/ (pc = "split" /\ j' = j)) =>
              ClosedAndRestored(vars.fs, vars.tempBuf, vars.o, FALSE,
                                vars'.fs, vars'.tempBuf)
        /\ (pc = "loop" /\ pc' = "done") =>
              /\ ClosedAndRestored(vars.fs, vars.finalBuf, blankOp, TRUE,
                                   vars'.fs, vars'.finalBuf)
              /\ Len(vars'.fs) = KeptCount(vars.fs, blankOp, TRUE)
        /\ BlockStep =>
              /\ Len(vars'.fs) >= KeptCount(vars.fs, vars.o, TRUE)
              /\ DueSet(vars.fs, vars.o, TRUE) # {} =>
                    /\ SubSeq(vars'.fs, 1, Lowest(DueSet(vars.fs, vars.o, TRUE)) - 1)
                          = SubSeq(vars.fs, 1, Lowest(DueSet(vars.fs, vars.o, TRUE)) - 1)
                    /\ Permutation(
                          SubSeq(vars'.fs, Lowest(DueSet(vars.fs, vars.o, TRUE)),
                                 KeptCount(vars.fs, vars.o, TRUE)),
                          KeptFrom(vars.fs, Lowest(DueSet(vars.fs, vars.o, TRUE)),
                                   vars.o, TRUE)) ]_allVars

\* C20 (its case is reached): bold italic text is followed by bold coloured
\* text: em, below strong on the stack, is closed; strong is closed before it
\* and opened again after it
C20_Witness ==
    /\ pc = "loop"
    /\ Len(raw) = 2
    /\ DOMAIN raw[1].Attrs = {"bold", "italic"}
    /\ DOMAIN raw[2].Attrs = {"bold", "color"}
    /\ Len(vars.fs) = 2
    /\ vars.fs[1].Val = "strong"
    /\ \E k \in 1..(Len(vars.tempBuf) - 8) :
          SubSeq(vars.tempBuf, k, k + 8)
              = << "</", "strong", ">", "</", "em", ">", "<", "strong", ">" >>

\* the attribute keyword that stands for the format of a stack entry
AttrKeyword(e) == IF e.fm.kind = "customBold" THEN "bold" ELSE e.fm.kind

\* the Op carries the format of the stack entry: it has the attribute
Carries(o, e) == AttrKeyword(e) \in DOMAIN o.Attrs

\* no entry of the stack is a wrapper
NoWrappers(fs) == \A k \in 1..Len(fs) : ~fs[k].wrap

RECURSIVE ReverseClosings(_, _)
\* the closing tags of the first k entries of a stack of non-wrapper formats,
\* the last opened first
ReverseClosings(fs, k) ==
    IF k = 0 THEN <<>>
    ELSE << "</", IF fs[k].Place = Tag THEN fs[k].Val ELSE "span", ">" >>
             \o ReverseClosings(fs, k - 1)

\* C21: closePrevious called with an op that carries none of the open
\* non-wrapper formats writes their closing tags in the exact reverse of the
\* order in which they were opened and leaves the stack empty: so for the final
\* close with the blank op, and for the inline write of an op with none of the
\* open formats, after which the stack holds only what that op opens.
C21_AllClosedInReverse ==
    [][ /\ (pc = "loop" /\ pc' = "done" /\ NoWrappers(vars.fs)) =>
              /\ vars'.fs = <<>>
              /\ vars'.finalBuf
                    = vars.finalBuf \o ReverseClosings(vars.fs, Len(vars.fs))
        /\ ((pc = "inline" \/ (pc = "split" /\ j' = j)) /\ NoWrappers(vars.fs)
                /\ \A k \in 1..Len(vars.fs) : ~Carries(vars.o, vars.fs[k])) =>
              /\ StartsWith(vars'.tempBuf,
                            vars.tempBuf \o ReverseClosings(vars.fs, Len(vars.fs)))
              /\ \A k \in 1..Len(vars.fs) : \A n \in 1..Len(vars'.fs) :
                    vars'.fs[n] # vars.fs[k] ]_allVars

\* the opening fragment of a stack entry, as pieces without "<" and ">"
FragmentOf(e) ==
    IF e.wrap THEN << e.Val >>
    ELSE IF e.Place = Tag THEN << e.Val >>
    ELSE IF e.Place = Class THEN << "span class=", Quote(e.Val) >>
    ELSE << "span style=", Quote(e.Val) >>

\* the opening fragment frag is closed by a closing tag of the given name, or
\* by the closing string of a list wrapper
ClosedBy(frag, name) ==
    IF IsWrapPost(name) THEN IsWrapPre(frag[1]) /\ WrapType(frag[1]) = WrapType(name)
    ELSE frag[1] = name \/ (~IsWrapPre(frag[1]) /\ TagName(frag[1]) = name)

\* the index of the last fragment of open that the name closes, 0 if none
LastOpen(open, name) ==
    IF \E k \in 1..Len(open) : ClosedBy(open[k], name)
    THEN CHOOSE k \in 1..Len(open) :
            /\ ClosedBy(open[k], name)
            /\ \A m \in (k + 1)..Len(open) : ~ClosedBy(open[m], name)
    ELSE 0

\* open without its entry of index k; open itself when k = 0
Without(open, k) ==
    IF k = 0 THEN open ELSE SubSeq(open, 1, k - 1) \o SubSeq(open, k + 1, Len(open))

RECURSIVE Unmatched(_, _, _)
\* the opening fragments among the pieces from index k on that no later closing
\* fragment matches, after those of open, in the order written
Unmatched(pieces, k, open) ==
    IF k > Len(pieces) THEN open
    ELSE IF pieces[k] = "<"
    THEN Unmatched(pieces, TagEnd(pieces, k) + 1,
                   Append(open, SubSeq(pieces, k + 1, TagEnd(pieces, k) - 1)))
    ELSE IF pieces[k] = "</"
    THEN Unmatched(pieces, k + 3, Without(open, LastOpen(open, pieces[k + 1])))
    ELSE IF IsWrapPre(pieces[k]) THEN Unmatched(pieces, k + 1, Append(open, << pieces[k] >>))
    ELSE IF IsWrapPost(pieces[k])
    THEN Unmatched(pieces, k + 1, Without(open, LastOpen(open, pieces[k])))
    ELSE IF pieces[k] = "<img src=" THEN Unmatched(pieces, k + 3, open)
    ELSE Unmatched(pieces, k + 1, open)

\* C22: after every op is processed, the opening fragments written so far
\* (the final buffer, then the temporary buffer) that no written closing
\* fragment matches are exactly the entries of the stack, in stack order.
C22_StackIsOpenMarkup ==
    pc = "loop" =>
        Unmatched(vars.finalBuf \o vars.tempBuf, 1, <<>>)
            = [k \in 1..Len(vars.fs) |-> FragmentOf(vars.fs[k])]

\* C23: a wrapper already open is not opened again: the stack never holds two
\* wrapper entries with the same opening string.
C23_NoWrapperTwice ==
    \A k \in 1..Len(vars.fs) : \A n \in 1..Len(vars.fs) :
        (k # n /\ vars.fs[k].wrap /\ vars.fs[n].wrap)
            => vars.fs[k].wrapPre # vars.fs[n].wrapPre

\* the Op yields, through the formatter of one of its attributes, a non-wrapper
\* format of the placement and value of the stack entry e
Yields(o, e, cf) ==
    \E key \in DOMAIN o.Attrs :
        /\ getFormatter(o, key, cf) # NilFmTer
        /\ ~IsFormatWrapper(getFormatter(o, key, cf))
        /\ Fmt(getFormatter(o, key, cf)) # <<>>
        /\ Fmt(getFormatter(o, key, cf))[1].Place = e.Place
        /\ Fmt(getFormatter(o, key, cf))[1].Val = e.Val

\* the number of opening fragments frag among the pieces
OpenCount(w, frag) ==
    Cardinality({ k \in 1..Len(w) :
                    /\ w[k] = "<"
                    /\ k + Len(frag) + 1 <= Len(w)
                    /\ SubSeq(w, k + 1, k + Len(frag)) = frag
                    /\ w[k + Len(frag) + 1] = ">" })

\* the number of closing tags among the pieces
CloseCount(w) == Cardinality({ k \in 1..Len(w) : w[k] = "</" })

\* the number of entries the closing scan pops for the Op: those from the
\* lowest one due to close up to the top
PoppedCount(fs, o, doingBlock) ==
    IF DueSet(fs, o, doingBlock) = {} THEN 0
    ELSE Len(fs) - Lowest(DueSet(fs, o, doingBlock)) + 1

\* the stack entry of index k is open, no wrapper, and the Op yields its format
Continued(v, k, cf) == ~v.fs[k].wrap /\ Yields(v.o, v.fs[k], cf)

\* C24: a non-wrapper inline format that is open when an op carrying the same
\* placement and value is written is not queued again: after the inline write
\* the stack holds it once; when no entry below it is due to close it keeps its
\* place, its opening fragment is not written again, and the only closing tags
\* written are those of the entries popped above it.
C24_OpenFormatNotQueuedAgain ==
    [][ (pc = "inline" \/ (pc = "split" /\ j' = j)) =>
            \A k \in 1..Len(vars.fs) :
                Continued(vars, k, customFormats) =>
                    /\ \A n \in 1..Len(vars.fms) :
                          \/ vars.fms[n].wrap
                          \/ vars.fms[n].Place # vars.fs[k].Place
                          \/ vars.fms[n].Val # vars.fs[k].Val
                    /\ Cardinality({ n \in 1..Len(vars'.fs) :
                                        /\ vars'.fs[n].Place = vars.fs[k].Place
                                        /\ vars'.fs[n].Val = vars.fs[k].Val }) = 1
                    /\ (\A m \in 1..(k - 1) : ~dueToClose(vars.fs[m], vars.fs, vars.o, FALSE)) =>
                          /\ vars'.fs[k] = vars.fs[k]
                          /\ OpenCount(Appended, FragmentOf(vars.fs[k])) = 0
                          /\ CloseCount(Appended) = PoppedCount(vars.fs, vars.o, FALSE) ]_allVars

\* C24 (its case is reached): two bold ops in a row are written and strong was
\* opened once
C24_Witness ==
    /\ pc = "loop"
    /\ Len(raw) = 2
    /\ \A n \in 1..2 : "bold" \in DOMAIN raw[n].Attrs /\ raw[n].Insert.s = << "x" >>
    /\ Len(vars.fs) = 2
    /\ OpenCount(vars.tempBuf, << "strong" >>) = 1
    /\ vars.tempBuf[Len(vars.tempBuf)] = "x"

\* entry a is written before entry b by the stated order: a wrapper first, then
\* by placement, then by value
InOrder(a, b) ==
    \/ a.wrap
    \/ /\ ~b.wrap
       /\ \/ a.Place < b.Place
          \/ (a.Place = b.Place /\ (a.Val = b.Val \/ StrLess(a.Val, b.Val)))

RECURSIVE OpeningsOf(_)
\* the opening fragments of the entries, in their order
OpeningsOf(fs) ==
    IF fs = <<>> THEN <<>>
    ELSE (IF Head(fs).wrap THEN << Head(fs).Val >>
          ELSE << "<" >> \o FragmentOf(Head(fs)) \o << ">" >>) \o OpeningsOf(Tail(fs))

\* C25: writeFormats stores and writes the formats it is given in a fixed
\* order: wrappers first, then Tag before Class before Style, then by value;
\* the order is the same whatever the order in which the formats were given.
C25_FixedOrder ==
    pc = "sorted" =>
        /\ \A a \in 1..Len(vars.fs) : \A b \in (a + 1)..Len(vars.fs) :
              InOrder(vars.fs[a], vars.fs[b])
        /\ vars.tempBuf = OpeningsOf(vars.fs)
        /\ vars.fs = twin.vars.fs
        /\ vars.tempBuf = twin.vars.tempBuf

\* the closing string of the entry e, as pieces
ClosingOf(e) ==
    IF e.wrap THEN << e.wrapPost >>
    ELSE IF e.Place = Tag THEN << "</", e.Val, ">" >>
    ELSE << "</", "span", ">" >>

\* C26: pop removes exactly the last stack entry and writes its closing string:
\* the closing string of the wrapper for a wrapper entry, "</" value ">" for a
\* Tag entry that is no wrapper, "</span>" for a Class or Style entry; the
\* other entries are unchanged.
C26_PopClosesLast ==
    [][ pc = "pop" =>
            /\ vars'.fs = SubSeq(vars.fs, 1, Len(vars.fs) - 1)
            /\ vars'.tempBuf = vars.tempBuf \o ClosingOf(vars.fs[Len(vars.fs)])
            /\ vars'.finalBuf = vars.finalBuf ]_allVars

\* C26 (its case is reached): a wrapper, a Tag entry and a Style entry were
\* popped, in that order, and the stack is empty
C26_Witness ==
    /\ pc = "pop"
    /\ vars.fs = <<>>
    /\ vars.tempBuf = << "</ul>", "</", "strong", ">", "</", "span", ">" >>

\* the index of the lowest stack entry due to close for the Op on the inline
\* path; the index above the top when none is due
LowestDue(fs, o) ==
    IF DueSet(fs, o, FALSE) = {} THEN Len(fs) + 1 ELSE Lowest(DueSet(fs, o, FALSE))

RECURSIVE ClosingsDown(_, _, _)
\* the closing strings of the entries from index k down to index low
ClosingsDown(fs, k, low) ==
    IF k < low THEN <<>> ELSE ClosingOf(fs[k]) \o ClosingsDown(fs, k - 1, low)

\* the formats queued for the Op that are no block formats: those it newly
\* opens on the inline path
NewInline(fms) == SelectSeq(fms, LAMBDA f : ~f.Block)

\* the last n entries of the sequence
LastN(s, n) == SubSeq(s, Len(s) - n + 1, Len(s))

\* C27: for an op without newline, writeInline appends to the temporary buffer,
\* in this order: the closing strings of the open formats from the top of the
\* stack down to the lowest one that does not apply to the op, then opening
\* fragments only (of the formats that had to be closed above it and still
\* apply, then of the non-block formats the op newly opens, which become the
\* top of the stack), then the text of the op; the final buffer is unchanged.
C27_CloseOpenText ==
    [][ pc = "inline" =>
            /\ vars'.finalBuf = vars.finalBuf
            /\ Len(vars'.fs) >= LowestDue(vars.fs, vars.o) - 1 + Len(NewInline(vars.fms))
            /\ Appended = ClosingsDown(vars.fs, Len(vars.fs), LowestDue(vars.fs, vars.o))
                            \o OpeningsOf(SubSeq(vars'.fs, LowestDue(vars.fs, vars.o),
                                                 Len(vars'.fs)))
                            \o vars.o.Data
            /\ \A n \in 1..Len(NewInline(vars.fms)) :
                  \E m \in 1..Len(NewInline(vars.fms)) :
                      /\ LastN(vars'.fs, Len(NewInline(vars.fms)))[m].fm = NewInline(vars.fms)[n].fm
                      /\ LastN(vars'.fs, Len(NewInline(vars.fms)))[m].Place = NewInline(vars.fms)[n].Place ]_allVars

\* C27 (its case is reached): after bold italic text, bold coloured text was
\* written: em and strong closed, strong opened again, the colour opened, then
\* the text
C27_Witness ==
    /\ pc = "loop"
    /\ Len(raw) = 2
    /\ EndsWith(vars.tempBuf,
                << "</", "strong", ">", "</", "em", ">", "<", "strong", ">",
                   "<", "span style=", Quote("color:red;"), ">", "y" >>)

\* the step is an inline write: of an op without newline, or of the text after
\* the last newline of an op
InlineStep == pc = "inline" \/ (pc = "split" /\ j' = j)

\* the number of pieces of w equal to p
PieceCount(w, p) == Cardinality({ k \in 1..Len(w) : w[k] = p })

\* the stack entry is a list wrapper
IsListWrapper(e) == e.wrap /\ e.fm.kind = "list"

\* the stack entry is a link wrapper
IsLinkWrapper(e) == e.wrap /\ e.fm.kind = "link"

\* C28 (amended): a list wrapper is never closed for good outside a block
\* boundary: the inline write leaves every list wrapper entry on the stack, at
\* its place when no entry below it is due to close, and writes its closing
\* string only together with its opening string again, when it is closed for a
\* while to close an entry below it.  A link wrapper whose target is not the
\* link of the op is closed by the inline write.
C28_ListWrapperKeptInline ==
    [][ InlineStep =>
            \A k \in 1..Len(vars.fs) :
                /\ IsListWrapper(vars.fs[k]) =>
                      /\ \E n \in 1..Len(vars'.fs) : vars'.fs[n] = vars.fs[k]
                      /\ LowestDue(vars.fs, vars.o) > k =>
                            /\ vars'.fs[k] = vars.fs[k]
                            /\ PieceCount(Appended, vars.fs[k].wrapPost) = 0
                      /\ PieceCount(Appended, vars.fs[k].wrapPost)
                            = PieceCount(Appended, vars.fs[k].wrapPre)
                /\ (IsLinkWrapper(vars.fs[k]) /\ AttrOf(vars.o, "link") # vars.fs[k].fm.arg) =>
                      /\ PieceCount(Appended, "</a>") >= 1
                      /\ \A n \in 1..Len(vars'.fs) : vars'.fs[n] # vars.fs[k] ]_allVars

\* C28 (its case is reached): text was written inline inside an open list, and
\* the list wrapper is still on the stack
C28_Witness ==
    /\ pc = "loop"
    /\ Len(raw) = 2
    /\ raw[2].Insert.s = << "a" >>
    /\ vars.tempBuf = << "a" >>
    /\ Len(vars.fs) = 1
    /\ IsListWrapper(vars.fs[1])

\* C28: a wrapper entry is never closed outside a block boundary: the inline
\* write pops no wrapper entry and writes no closing string of a wrapper.
C28_NoWrapperClosedInline ==
    [][ InlineStep =>
            \A k \in 1..Len(vars.fs) :
                vars.fs[k].wrap =>
                    /\ Len(vars'.fs) >= k
                    /\ vars'.fs[k] = vars.fs[k]
                    /\ PieceCount(Appended, vars.fs[k].wrapPost) = 0 ]_allVars

\* makeOp succeeds on the raw op: its insert is a string or an object with a key
Usable(ro) ==
    \/ ro.Insert.t = "string"
    \/ (ro.Insert.t = "map" /\ DOMAIN ro.Insert.m # {})

\* the Op o holds the attributes of the raw op and nothing else
AttrsOf(ro, o) ==
    /\ DOMAIN o.Attrs = DOMAIN ro.Attrs
    /\ \A a \in DOMAIN ro.Attrs : o.Attrs[a] = extractString(ro.Attrs[a])

\* the Op o holds the type and the data of the raw op; the data of an embed is
\* that of the key taken as type, or nothing once its Formatter has written it
TypeAndDataOf(ro, o) ==
    IF ro.Insert.t = "string"
    THEN o.Type = "text" /\ o.Data = EscapeString(ro.Insert.s)
    ELSE /\ o.Type \in DOMAIN ro.Insert.m
         /\ \/ o.Data = DataOf(extractString(ro.Insert.m[o.Type]))
            \/ (o.Type = "image" /\ o.Data = <<>>)

\* C29: after makeOp succeeds on the reused Op, its Attrs hold exactly the keys
\* of the attributes of the current raw op, none of the op before, and its Type
\* and Data are those of the current raw op; when makeOp fails the Op is left
\* as it was.
C29_MakeOpOverwrites ==
    [][ raw' # raw =>
            IF Usable(raw'[Len(raw')])
            THEN /\ AttrsOf(raw'[Len(raw')], vars'.o)
                 /\ TypeAndDataOf(raw'[Len(raw')], vars'.o)
            ELSE /\ vars'.o = vars.o
                 /\ pc' = "error" ]_allVars

\* C29 (its case is reached): a bold op was followed by a list item: the Op
\* holds the list attribute and no bold
C29_Witness ==
    /\ Len(raw) = 2
    /\ DOMAIN raw[1].Attrs = {"bold"}
    /\ DOMAIN raw[2].Attrs = {"list"}
    /\ pc = "split"
    /\ DOMAIN vars.o.Attrs = {"list"}
    /\ vars.o.Data = << "\n" >>

\* the pieces hold an empty paragraph: the opening tag of a p, with or without
\* attributes, with "</p>" right after it
EmptyParagraph(w) ==
    \E k \in 1..(Len(w) - 5) :
        /\ w[k] = "<" /\ w[k + 1] = "p"
        /\ TagEnd(w, k) + 3 <= Len(w)
        /\ SubSeq(w, TagEnd(w, k) + 1, TagEnd(w, k) + 3) = << "</", "p", ">" >>

\* the Op is a text op with no attribute that names the tag of the block
PlainBlock(o) ==
    /\ o.Type = "text"
    /\ ~HasAttr(o, "header") /\ ~HasAttr(o, "blockquote") /\ ~HasAttr(o, "list")

NoNewlines(chars) == SelectSeq(chars, LAMBDA c : c # "\n")

RECURSIVE TextOfOps(_, _)
\* the text of the string inserts of the raw ops from index k on, escaped,
\* without the newlines, in op order
TextOfOps(rs, k) ==
    IF k > Len(rs) THEN <<>>
    ELSE (IF rs[k].Insert.t = "string" THEN EscapeString(NoNewlines(rs[k].Insert.s))
          ELSE <<>>) \o TextOfOps(rs, k + 1)

\* the pieces of w that are characters of the text t, in the order written
TextIn(w, t) == SelectSeq(w, LAMBDA p : \E k \in 1..Len(t) : t[k] = p)

\* C31: every non-empty text segment of every op is in the HTML a successful
\* render returns, in op order, the inline content written after the last
\* newline of the document included.
C31_AllTextReturned ==
    pc = "done" => TextIn(html, TextOfOps(raw, 1)) = TextOfOps(raw, 1)

\* the formatter of the attribute key of the Op gives an inline format that is
\* no wrapper
InlineKey(o, key, cf) ==
    /\ getFormatter(o, key, cf) # NilFmTer
    /\ ~IsFormatWrapper(getFormatter(o, key, cf))
    /\ Fmt(getFormatter(o, key, cf)) # <<>>
    /\ ~Fmt(getFormatter(o, key, cf))[1].Block

\* the opening fragment frag is open, not closed again, at the end of the pieces
OpenAtEnd(w, frag) ==
    \E k \in 1..Len(Unmatched(w, 1, <<>>)) : Unmatched(w, 1, <<>>)[k] = frag

\* the pieces w without their last n pieces
DropLast(w, n) == SubSeq(w, 1, Len(w) - n)

\* every inline format of the Op is open at the end of the pieces
InlineFormatsOpen(o, cf, w) ==
    \A key \in DOMAIN o.Attrs :
        InlineKey(o, key, cf) =>
            OpenAtEnd(w, FragmentOf(Fmt(getFormatter(o, key, cf))[1]))

\* C32: the inline formats of an op apply to all of its text: every non-empty
\* segment of the op, one that a newline ends as well as the trailing one, is
\* written inside the opening and closing tags of each inline format of the op:
\* where the text of the segment starts, the format is open.
C32_FormatsOnEverySegment ==
    [][ /\ (BlockStep /\ split[j] # <<>>) =>
              InlineFormatsOpen(vars.o, customFormats,
                                DropLast(vars'.finalBuf, Len(split[j]) + 3))
        /\ (InlineStep /\ vars'.tempBuf # <<>>) =>
              InlineFormatsOpen(vars.o, customFormats,
                                DropLast(vars.finalBuf \o vars'.tempBuf,
                                         IF pc = "split" THEN Len(split[j])
                                         ELSE Len(vars.o.Data))) ]_allVars

\* the attribute keywords whose formatter carries the value of the attribute
ValueKeywords == {"color", "background", "size", "script"}

\* the number of stack entries the formatter of the keyword produced
EntriesOf(fs, keyword) ==
    Cardinality({ k \in 1..Len(fs) : ~fs[k].wrap /\ fs[k].fm.kind = keyword })

\* C33: when consecutive ops carry the same value-bearing attribute with
\* different values, the tag of the value before is closed before the tag of
\* the new value is opened: after any op the stack holds at most one entry
\* produced by each attribute keyword.
C33_OneEntryPerKeyword ==
    pc = "loop" => \A keyword \in ValueKeywords : EntriesOf(vars.fs, keyword) <= 1

\* C34: an embed op is written in the order of a text op: the closing strings
\* of the open formats that do not apply to it and the opening fragments of its
\* own inline formats and wrappers are written before the embed markup: once
\* the op is written, its markup is the last thing in the temporary buffer.
C34_EmbedWrittenLast ==
    (pc = "loop" /\ raw # <<>> /\ IsImage(raw[Len(raw)])) =>
        /\ Len(vars.tempBuf) >= 3
        /\ vars.tempBuf[Len(vars.tempBuf) - 2] = "<img src="
        /\ vars.tempBuf[Len(vars.tempBuf)] = ">"

\* C35: the stack never holds a block-level format that is no wrapper: every
\* stack entry is a wrapper entry or an inline Tag, Class or Style entry, and
\* the inline write writes the opening fragment of no block format queued for
\* the op: those are written in the merged opening tag of a block only.
C35_NoBlockFormatOnStack ==
    [][ /\ \A k \in 1..Len(vars'.fs) :
              \/ vars'.fs[k].wrap
              \/ (~vars'.fs[k].Block /\ vars'.fs[k].Place \in {Tag, Class, Style})
        /\ InlineStep =>
              \A n \in 1..Len(vars.fms) :
                  (vars.fms[n].Block /\ ~vars.fms[n].wrap) =>
                      OpenCount(Appended, FragmentOf(vars.fms[n])) = 0 ]_allVars

\* C35 (its case is reached): text carrying a header attribute and no newline
\* was written inline after an open list item: the stack holds the list
\* wrapper only
C35_Witness ==
    /\ pc = "loop"
    /\ Len(raw) = 2
    /\ raw[2] = Text(<< "a" >>, [header |-> JNum(1)])
    /\ vars.tempBuf = << "a" >>
    /\ Len(vars.fs) = 1
    /\ vars.fs[1].wrap

ClosingPieces(w) ==
    Cardinality({ k \in 1..Len(w) : w[k] = "</" \/ IsWrapPost(w[k]) \/ w[k] = "</a>" })

\* the render has returned
Returned == pc \in {"done", "error"}

\* what is left to do: the ops not yet taken, and the steps left for the op in
\* hand
OpsLeft == MaxOps - Len(raw)

StepsLeft ==
    CASE pc = "split" -> Len(split) - j + 2
      [] pc = "inline" -> 2
      [] pc = "loop" -> 1
      [] OTHER -> 0

\* C37: every render over a finite op sequence terminates: it returns, with the
\* final close and a nil error or with the first error, and nothing is done
\* after it; each op is taken once, in its turn, and every step leaves less to
\* do; a closing scan closes each stack entry at most once: a step writes at
\* most as many closing strings as the stack holds entries, beside the closing
\* tag of the block it writes.
C37_Terminates ==
    /\ <>Returned
    /\ [][ /\ ~Returned
           /\ raw' # raw => (pc = "loop" /\ raw' = Append(raw, raw'[Len(raw')]))
           /\ \/ OpsLeft' < OpsLeft /\ OpsLeft' >= 0
              \/ OpsLeft' = OpsLeft /\ StepsLeft' < StepsLeft
           /\ pc' = "done" => (pc = "loop" /\ html' = vars'.finalBuf)
           /\ InlineStep => ClosingPieces(Appended) <= Len(vars.fs)
           /\ BlockStep =>
                 ClosingPieces(Written)
                     <= Len(vars.fs) + 1 + ClosingPieces(vars.tempBuf)
           /\ (pc = "loop" /\ pc' = "done") =>
                 ClosingPieces(Written) <= Len(vars.fs) ]_allVars

\* C37 (its case is reached): three ops were taken, formats were closed on the
\* way, and the render has returned without error
C37_Witness ==
    /\ pc = "done"
    /\ Len(raw) = MaxOps
    /\ ClosingPieces(html) >= 3

\* C38: add appends the format it is given to the end of the stack whenever its
\* placement is Tag, Class or Style, whether or not an equal entry is open: the
\* stack grows by exactly one entry, the entries it held keep their places, and
\* the new last entry is the format given.
C38_AddAppends ==
    [][ (pc = "add" /\ vars'.fms[1].Place \in {Tag, Class, Style}) =>
            /\ Len(vars'.fs) = Len(vars.fs) + 1
            /\ SubSeq(vars'.fs, 1, Len(vars.fs)) = vars.fs
            /\ vars'.fs[Len(vars'.fs)] = vars'.fms[1] ]_allVars

\* C38 (its case is reached): a format was added while an entry of the same
\* placement and value was open, and the stack holds both
C38_Witness ==
    /\ pc = "add"
    /\ j = 2
    /\ Len(vars.fs) = 2
    /\ vars.fs[2] = vars.fms[1]
    /\ vars.fs[1].Place = vars.fs[2].Place
    /\ vars.fs[1].Val = vars.fs[2].Val

\* a stack entry that is no wrapper has the placement and the value of fm
OpenNonWrapper(fs, fm) ==
    \E k \in 1..Len(fs) : ~fs[k].wrap /\ fs[k].Place = fm.Place /\ fs[k].Val = fm.Val

\* C39: hasSet is true exactly when a stack entry that is no wrapper has the
\* placement and the value of the format given; a wrapper on the stack never
\* makes it true.  (addFmTer drops the format exactly when hasSet is true.)
C39_WrappersIgnored ==
    [][ pc = "hasSet" =>
            ((vars'.fms = <<>>) <=> OpenNonWrapper(vars.fs, vars.fms[1])) ]_allVars

====
